---------------------------- MODULE Spec2Model ----------------------------
(***************************************************************************)
(* Gemini Animator: the image editor's parameter store with its undo/redo  *)
(* history (src/components/ImageEditor.tsx) and the dashboard's video      *)
(* generation job (src/unnamed/part_000, the AnimatorDashboard component). *)
(*                                                                         *)
(* Every React event handler runs to completion before the next event is   *)
(* dispatched and sees the state of the latest render, so one handler is   *)
(* one atomic action.  An async function is cut at its awaits.             *)
(***************************************************************************)
EXTENDS Integers, Sequences, FiniteSets, TLC

VARIABLES
    \* ---- ImageEditor component state
    params,            \* useState<EditorParams>
    history,           \* useState<EditorParams[]>: the past (undo) stack
    future,            \* useState<EditorParams[]>: the redo stack
    isDragging,        \* useState(false)
    dragStartParams,   \* useRef<EditorParams | null>: <<>> or <<snapshot>>
    \* ---- observers of the editor's run
    lastEvent,         \* the handler that ran last
    edits,             \* committed edits made since the editor was mounted
    steps,             \* handlers run since the editor was mounted
    \* ---- the editor's canvas element, its props and what it hands back
    canvas,            \* canvasRef.current: the bitmap and the CSS styles
    aspectRatio,       \* the aspectRatio prop: "16:9" or "9:16"
    exported,          \* what onSave was called with: <<>> or <<raster>>
    editingIndex,      \* useState<number | null>: the slot being edited;
                       \* the editor is mounted while it is not null
    shakeFrameRef,     \* useRef<number>(0): the id of the frame requested last
    frames,            \* the animation-frame callbacks requested and neither
                       \* run nor cancelled: records [id, cameraShake]
    \* ---- AnimatorDashboard component state
    startImage,        \* useState<string | null>: TRUE when an image is set
    genState,          \* useState<GenerationState>
    \* ---- the calls of generateVideo, one record per call that got past
    \* ---- its validation: where it stands and what it did
    runs,
    alerts,            \* alert() dialogs shown by generateVideo
    \* ---- App component state
    apiKeySelected,    \* useState<boolean | null>(null): Null, <<TRUE>>, <<FALSE>>
    \* ---- AnimatorDashboard: the inputs of the prompt and the suggestion
    prompt,            \* useState(PRESETS[1].prompt): a text
    activePreset,      \* useState<string>
    motionBlur,        \* useState<boolean>(false)
    stabilization,     \* useState<boolean>(true)
    speed,             \* useState<number>(1.0), in hundredths
    selectedBgMusicId, \* useState<string>('none')
    selectedSfxId,     \* useState<string>('none')
    isAdvancedMode,    \* useState(false)
    camAngle,          \* useState('wide')
    motionType,        \* useState('pan')
    atmosphere,        \* useState<string[]>([])
    isSuggesting,      \* useState(false)
    directorVision,    \* useState<string | null>(null)
    enginePromptMemo,  \* the value useMemo holds for enginePrompt
    \* ---- AnimatorDashboard: the result video and the two audio channels
    videoRef,          \* useRef<HTMLVideoElement>: Null, or the element
    audio,             \* the elements of bgMusicRef and sfxRef
    mediaCalls,        \* observer: play/pause calls made by the last event
    \* ---- App and ApiKeyModal: the host's credential capability
    aistudio,          \* window.aistudio is present
    keyCheck,          \* where checkApiKey is
    openSelects,       \* calls of handleOpenSelect waiting for openSelectKey
    keyEvent,          \* observer: the last event of the App or the modal
    unhandled          \* observer: the rejections that no handler caught

editorVars == <<params, history, future, isDragging, dragStartParams,
                lastEvent, edits, steps,
                canvas, aspectRatio, exported, editingIndex,
                shakeFrameRef, frames>>
jobVars == <<startImage, genState, runs, alerts, apiKeySelected>>
composerVars == <<prompt, activePreset, motionBlur, stabilization, speed,
                  selectedBgMusicId, selectedSfxId, isAdvancedMode, camAngle,
                  motionType, atmosphere, isSuggesting, directorVision,
                  enginePromptMemo>>
\* the variables outside the editor and outside the generation job
appVars == <<aistudio, keyCheck, openSelects, keyEvent, unhandled>>
otherVars == <<composerVars, appVars>>
audioVars == <<videoRef, audio, mediaCalls>>
vars == <<params, history, future, isDragging, dragStartParams,
          lastEvent, edits, steps,
          canvas, aspectRatio, exported, editingIndex,
          shakeFrameRef, frames,
          startImage, genState, runs, alerts, apiKeySelected,
          prompt, activePreset, motionBlur, stabilization, speed,
          selectedBgMusicId, selectedSfxId, isAdvancedMode, camAngle,
          motionType, atmosphere, isSuggesting, directorVision,
          enginePromptMemo,
          videoRef, audio, mediaCalls,
          aistudio, keyCheck, openSelects, keyEvent, unhandled>>

----------------------------------------------------------------------------
(* Bounds of the model *)

\* handlers run in one behaviour of the editor
MaxSteps == 5
\* handlers run in one behaviour of the editor with every slider moved
MaxRangeSteps == 4
\* committed edits in one behaviour of the editor
MaxEdits == 4
\* calls of generateVideo that pass its validation in one behaviour
MaxRuns == 2
\* poll ticks of one generation job
MaxPolls == 7
\* validation alerts in one behaviour
MaxAlerts == 1
\* the longest side, in pixels, of a source image that is exported
MaxSide == 18
\* handlers run in one behaviour of the editor that ends with an export
MaxExportSteps == 4
\* handlers and frame callbacks run in one behaviour of the camera shake
MaxShakeSteps == 7

\* sync listeners registered on one video element, over both channels
MaxListeners == 4
\* calls of handleOpenSelect waiting for the host at one time
MaxOpenSelects == 2

----------------------------------------------------------------------------
(* EditorParams and the sliders *)

\* a nullable reference is a sequence: <<>> is null, <<x>> refers to x
Null == <<>>

\* the keys of EditorParams, in the order JSON.stringify writes them
ParamKeys == <<"brightness", "contrast", "saturation", "hue", "vignette",
               "grayscale", "sepia", "rotation", "rotateX", "rotateY",
               "perspective", "cameraShake">>

KeySet == {ParamKeys[i] : i \in 1..Len(ParamKeys)}

\* the initial useState value
DefaultParams ==
    [brightness |-> 100, contrast |-> 100, saturation |-> 100, hue |-> 0,
     vignette |-> 0, grayscale |-> FALSE, sepia |-> FALSE, rotation |-> 0,
     rotateX |-> 0, rotateY |-> 0, perspective |-> 1000, cameraShake |-> 0]

\* the <input type="range"> elements: field |-> <<min, max>>
SliderRange ==
    [rotateX |-> <<-60, 60>>, rotateY |-> <<-60, 60>>,
     perspective |-> <<500, 2500>>, brightness |-> <<0, 200>>,
     contrast |-> <<0, 200>>, saturation |-> <<0, 200>>,
     hue |-> <<0, 360>>, cameraShake |-> <<0, 100>>,
     vignette |-> <<-100, 100>>]

Sliders == DOMAIN SliderRange

\* the values a slider is moved to in the model: both ends of its range and
\* the default position
SliderSamples(f) == {SliderRange[f][1], DefaultParams[f], SliderRange[f][2]}

----------------------------------------------------------------------------
(* The history: pure state transformers over [params, history, future] *)

\* the three useState cells the history functions read and write
EdState == [params |-> params, history |-> history, future |-> future]

\* ({ ...prev, ...newParams }): newParams is a partial record
Merge(prev, newParams) ==
    [k \in DOMAIN prev |->
        IF k \in DOMAIN newParams THEN newParams[k] ELSE prev[k]]

\* updateParams pushing the merged snapshot instead of the one it replaces
updateParamsPushesNew(s, newParams, commit) ==
    [params  |-> Merge(s.params, newParams),
     history |-> IF commit THEN Append(s.history, Merge(s.params, newParams))
                 ELSE s.history,
     future  |-> IF commit THEN <<>> ELSE s.future]

updateParams(s, newParams, commit) ==
    [params  |-> Merge(s.params, newParams),
     history |-> IF commit THEN Append(s.history, s.params) ELSE s.history,
     future  |-> IF commit THEN <<>> ELSE s.future]

\* undo without its test of the past stack: the current snapshot is pushed
\* onto the future even when there is nothing to go back to
undoUnguarded(s) ==
    [params  |-> IF Len(s.history) = 0 THEN s.params
                 ELSE s.history[Len(s.history)],
     history |-> SubSeq(s.history, 1, Len(s.history) - 1),
     future  |-> <<s.params>> \o s.future]

undo(s) ==
    IF Len(s.history) = 0 THEN s
    ELSE LET previous == s.history[Len(s.history)] IN
         [params  |-> previous,
          history |-> SubSeq(s.history, 1, Len(s.history) - 1),
          future  |-> <<s.params>> \o s.future]

\* redo leaving the entry it restores on the future stack
redoKeepsFuture(s) ==
    IF Len(s.future) = 0 THEN s
    ELSE [params  |-> s.future[1],
          history |-> Append(s.history, s.params),
          future  |-> s.future]

redo(s) ==
    IF Len(s.future) = 0 THEN s
    ELSE LET next == s.future[1] IN
         [params  |-> next,
          history |-> Append(s.history, s.params),
          future  |-> SubSeq(s.future, 2, Len(s.future))]

\* the keydown events of the model: [ctrlKey, metaKey, shiftKey, key]
KeyEvents ==
    {[ctrlKey |-> TRUE,  metaKey |-> FALSE, shiftKey |-> FALSE, key |-> "z"],
     [ctrlKey |-> FALSE, metaKey |-> TRUE,  shiftKey |-> FALSE, key |-> "z"],
     [ctrlKey |-> TRUE,  metaKey |-> FALSE, shiftKey |-> TRUE,  key |-> "z"],
     [ctrlKey |-> FALSE, metaKey |-> TRUE,  shiftKey |-> FALSE, key |-> "y"],
     [ctrlKey |-> TRUE,  metaKey |-> FALSE, shiftKey |-> FALSE, key |-> "y"],
     [ctrlKey |-> FALSE, metaKey |-> FALSE, shiftKey |-> FALSE, key |-> "z"]}

\* which function handleKeyDown calls for event e
KeyCall(e) ==
    IF (e.ctrlKey \/ e.metaKey) /\ e.key = "z"
    THEN (IF e.shiftKey THEN "redo" ELSE "undo")
    ELSE IF (e.ctrlKey \/ e.metaKey) /\ e.key = "y" THEN "redo"
    ELSE "none"

handleKeyDown(s, e) ==
    CASE KeyCall(e) = "undo" -> undo(s)
      [] KeyCall(e) = "redo" -> redo(s)
      [] OTHER -> s

\* JSON.stringify of an EditorParams object: its values in key order
JSONstringify(p) == [i \in 1..Len(ParamKeys) |-> p[ParamKeys[i]]]

\* hasChanged of handleSliderEnd
hasChanged(start, current) == JSONstringify(start) # JSONstringify(current)

\* handleSliderEnd without setFuture([])
handleSliderEndKeepsFuture(s, start) ==
    IF start # Null /\ hasChanged(start[1], s.params)
    THEN [params |-> s.params,
          history |-> Append(s.history, start[1]),
          future |-> s.future]
    ELSE s

\* handleSliderEnd without the hasChanged test
handleSliderEndAlways(s, start) ==
    IF start # Null
    THEN [params |-> s.params,
          history |-> Append(s.history, start[1]),
          future |-> <<>>]
    ELSE s

\* handleSliderEnd's effect on the history
handleSliderEnd(s, start) ==
    IF start # Null /\ hasChanged(start[1], s.params)
    THEN [params |-> s.params,
          history |-> Append(s.history, start[1]),
          future |-> <<>>]
    ELSE s

----------------------------------------------------------------------------
(* The render pipeline: applyChanges paints the canvas, handleSave exports *)

\* the CSS filter chain of the 2D context, in the order it is composed
Filters(p) ==
    <<"brightness", p.brightness, "contrast", p.contrast,
      "saturate", p.saturation, "hue-rotate", p.hue>>
    \o (IF p.grayscale THEN <<"grayscale", 100>> ELSE <<>>)
    \o (IF p.sepia THEN <<"sepia", 100>> ELSE <<>>)

\* Math.abs
Abs(n) == IF n < 0 THEN -n ELSE n

\* the radial gradient drawn over the image: none when vignette is 0, else
\* its colour and its opacity at the edge, in hundredths
Vignette(p) ==
    IF p.vignette = 0 THEN Null
    ELSE <<[color |-> IF p.vignette > 0 THEN "0, 0, 0" ELSE "255, 255, 255",
            opacity |-> Abs(p.vignette)]>>

\* a canvas of an image that has not been painted yet
BlankCanvas(w, h) ==
    [width |-> w, height |-> h, filter |-> <<>>, vignette |-> Null,
     transform |-> <<0, 0, 0>>, perspective |-> 0, margin |-> <<0, 0>>]

\* applyChanges also drawing the image through the 3D tilt
applyChangesBakesTilt(cv, p) ==
    [cv EXCEPT !.filter = Filters(p) \o <<"rotateX", p.rotateX,
                                          "rotateY", p.rotateY>>,
               !.vignette = Vignette(p),
               !.transform = <<p.rotateX, p.rotateY, p.rotation>>,
               !.perspective = p.perspective]

\* applyChanges, with the image loaded: the bitmap keeps the image's size
\* and is drawn through the filter chain, then the vignette; the 3D
\* rotation and the perspective go to the styles of the element and of its
\* container
applyChanges(cv, p) ==
    [cv EXCEPT !.filter = Filters(p),
               !.vignette = Vignette(p),
               !.transform = <<p.rotateX, p.rotateY, p.rotation>>,
               !.perspective = p.perspective]

\* the [wRatio, hRatio] of the aspect ratio prop
Ratio(ar) == IF ar = "16:9" THEN <<16, 9>> ELSE <<9, 16>>

\* isVertical of handleSave
isVertical(rotation) == (rotation \div 90) % 2 # 0

\* the size of the export always fitted to the width
FinalSizeWidthDriven(cw, ch, rotation, ar) ==
    LET wRatio == Ratio(ar)[1]
        hRatio == Ratio(ar)[2]
        baseW == IF isVertical(rotation) THEN ch ELSE cw
    IN  [width |-> baseW, height |-> (baseW * hRatio) \div wRatio]

\* finalCanvas.width and finalCanvas.height as handleSave sets them from a
\* canvas of cw by ch: the quotients are real numbers, compared as such,
\* and the canvas attributes keep their integer parts
FinalSize(cw, ch, rotation, ar) ==
    LET wRatio == Ratio(ar)[1]
        hRatio == Ratio(ar)[2]
        baseW == IF isVertical(rotation) THEN ch ELSE cw
        baseH == IF isVertical(rotation) THEN cw ELSE ch
    IN  IF baseW * hRatio > baseH * wRatio
        THEN [width |-> (baseH * wRatio) \div hRatio, height |-> baseH]
        ELSE [width |-> baseW, height |-> (baseW * hRatio) \div wRatio]

\* the raster handleSave draws: the canvas bitmap, centred and rotated by
\* the planar rotation, on a canvas of the final size
Export(cv, p, ar) ==
    [width |-> FinalSize(cv.width, cv.height, p.rotation, ar).width,
     height |-> FinalSize(cv.width, cv.height, p.rotation, ar).height,
     rotate |-> p.rotation,
     bitmap |-> [width |-> cv.width, height |-> cv.height,
                 filter |-> cv.filter, vignette |-> cv.vignette]]

----------------------------------------------------------------------------
(* The camera shake: the effect on params.cameraShake and its frame loop *)

\* an id requestAnimationFrame has not handed out among the ids still held
\* by a pending callback or by the ref
FreshFrame(pending, ref) ==
    CHOOSE n \in 1..(Cardinality(pending) + 2) :
        /\ n # ref
        /\ \A f \in pending : f.id # n
        /\ \A m \in 1..(n - 1) : m = ref \/ \E f \in pending : f.id = m

\* an effect that returns no cleanup
shakeCleanupNone(pending, ref) == pending

\* the cleanup of the effect: cancelAnimationFrame(shakeFrameRef.current)
shakeCleanup(pending, ref) == {f \in pending : f.id # ref}

\* requestAnimationFrame(animateShake) by the effect or by the callback
\* that closes over intensity shake, stored in the ref
Requested(pending, ref, shake) ==
    [frames |-> pending \cup {[id |-> FreshFrame(pending, ref),
                               cameraShake |-> shake]},
     ref |-> FreshFrame(pending, ref)]

\* the effect with dependency params.cameraShake, run after a render in
\* which the intensity went from old to new: the cleanup of the previous
\* run, if that run returned one, then the effect itself
shakeEffect(pending, ref, cv, old, new) ==
    LET cleaned == IF old > 0 THEN shakeCleanup(pending, ref) ELSE pending IN
    IF new = old
    THEN [frames |-> pending, ref |-> ref, canvas |-> cv]
    ELSE IF new <= 0
    THEN [frames |-> cleaned, ref |-> ref,
          canvas |-> [cv EXCEPT !.margin = <<0, 0>>]]
    ELSE [frames |-> Requested(cleaned, ref, new).frames,
          ref |-> Requested(cleaned, ref, new).ref, canvas |-> cv]

\* the unmount of the editor: the cleanup of the last run of the effect
shakeUnmount(pending, ref, shake) ==
    IF shake > 0 THEN shakeCleanup(pending, ref) ELSE pending

\* (Math.random() - 0.5) * intensity in fortieths of a pixel, for
\* intensity = shake / 20: the least and the greatest offset
Jitter(shake) == {-shake, shake - 1}

----------------------------------------------------------------------------
(* The editor's actions: one per event handler *)

\* the mounted editor continues with history state s after handler ev, and
\* the effects of the render run: the one on params.cameraShake, then the
\* one on params, which repaints the canvas; committed says that the
\* handler pushed a snapshot as a new history entry
Becomes(s, ev, committed) ==
    /\ editingIndex # Null
    /\ committed => edits < MaxEdits
    /\ params' = s.params
    /\ LET shaken == shakeEffect(frames, shakeFrameRef, canvas,
                                 params.cameraShake, s.params.cameraShake)
       IN  /\ canvas' = applyChanges(shaken.canvas, s.params)
           /\ frames' = shaken.frames
           /\ shakeFrameRef' = shaken.ref
    /\ UNCHANGED <<aspectRatio, exported, editingIndex>>
    /\ history' = s.history
    /\ future' = s.future
    /\ lastEvent' = ev
    /\ edits' = IF committed THEN edits + 1 ELSE edits
    /\ steps' = steps + 1
    /\ UNCHANGED <<jobVars, otherVars, audioVars>>

\* onChange committing every intermediate value
SliderChangeCommits(f, v) ==
    /\ Becomes(updateParams(EdState, [k \in {f} |-> v], TRUE), "change", FALSE)
    /\ UNCHANGED <<isDragging, dragStartParams>>

\* onChange of the slider of field f, moved to v
SliderChange(f, v) ==
    /\ Becomes(updateParams(EdState, [k \in {f} |-> v], FALSE), "change", FALSE)
    /\ UNCHANGED <<isDragging, dragStartParams>>

\* onMouseDown / onTouchStart of a slider
handleSliderStart ==
    /\ Becomes(EdState, "sliderStart", FALSE)
    /\ isDragging' = TRUE
    /\ dragStartParams' = <<params>>

\* onMouseUp / onTouchEnd of a slider
SliderEnd ==
    /\ Becomes(handleSliderEnd(EdState, dragStartParams), "sliderEnd",
               handleSliderEnd(EdState, dragStartParams).history # history)
    /\ isDragging' = FALSE
    /\ UNCHANGED dragStartParams

\* onClick of Apply Changes: handleSave draws the export and passes it to
\* onSave, which stores it in the slot being edited and closes the editor
handleSave ==
    /\ editingIndex # Null
    /\ exported' = <<Export(canvas, params, aspectRatio)>>
    /\ startImage' = IF editingIndex = <<0>> THEN TRUE ELSE startImage
    /\ editingIndex' = Null
    /\ frames' = shakeUnmount(frames, shakeFrameRef, params.cameraShake)
    /\ lastEvent' = "save"
    /\ steps' = steps + 1
    /\ UNCHANGED <<params, history, future, isDragging, dragStartParams,
                   edits, canvas, aspectRatio, shakeFrameRef>>
    /\ UNCHANGED <<genState, runs, alerts, apiKeySelected>>
    /\ UNCHANGED <<otherVars, audioVars>>

\* onClick of Cancel or of the close button: the editor is closed
onCancel ==
    /\ editingIndex # Null
    /\ editingIndex' = Null
    /\ frames' = shakeUnmount(frames, shakeFrameRef, params.cameraShake)
    /\ lastEvent' = "cancel"
    /\ steps' = steps + 1
    /\ UNCHANGED <<params, history, future, isDragging, dragStartParams,
                   edits, canvas, aspectRatio, exported, shakeFrameRef>>
    /\ UNCHANGED <<jobVars, otherVars, audioVars>>

\* the browser runs the pending callback f: animateShake moves the canvas,
\* if there is one, by random offsets and requests the next frame
animateShake(f) ==
    /\ f \in frames
    /\ \E x \in Jitter(f.cameraShake), y \in Jitter(f.cameraShake) :
           canvas' = IF editingIndex # Null
                     THEN [canvas EXCEPT !.margin = <<x, y>>] ELSE canvas
    /\ frames' = Requested(frames \ {f}, shakeFrameRef, f.cameraShake).frames
    /\ shakeFrameRef' =
           Requested(frames \ {f}, shakeFrameRef, f.cameraShake).ref
    /\ lastEvent' = "frame"
    /\ steps' = steps + 1
    /\ UNCHANGED <<params, history, future, isDragging, dragStartParams,
                   edits, aspectRatio, exported, editingIndex>>
    /\ UNCHANGED <<jobVars, otherVars, audioVars>>

\* handleRotateZ without the wrap at 360
handleRotateZNoWrap ==
    /\ Becomes(updateParams(EdState,
                   [k \in {"rotation"} |-> params.rotation + 90], TRUE),
               "rotate", TRUE)
    /\ UNCHANGED <<isDragging, dragStartParams>>

handleRotateZ ==
    /\ Becomes(updateParams(EdState,
                   [k \in {"rotation"} |-> (params.rotation + 90) % 360], TRUE),
               "rotate", TRUE)
    /\ UNCHANGED <<isDragging, dragStartParams>>

resetTransforms ==
    /\ Becomes(updateParams(EdState,
                   [rotateX |-> 0, rotateY |-> 0, rotation |-> 0,
                    perspective |-> 1000], TRUE),
               "reset", TRUE)
    /\ UNCHANGED <<isDragging, dragStartParams>>

\* onClick of the Grayscale and Sepia Tone switches
Toggle(f) ==
    /\ Becomes(updateParams(EdState, [k \in {f} |-> ~params[f]], TRUE),
               "toggle", TRUE)
    /\ UNCHANGED <<isDragging, dragStartParams>>

\* the Undo button, disabled while the past stack is empty
ClickUndo ==
    /\ Len(history) # 0
    /\ Becomes(undo(EdState), "undo", FALSE)
    /\ UNCHANGED <<isDragging, dragStartParams>>

\* the Redo button, disabled while the future stack is empty
ClickRedo ==
    /\ Len(future) # 0
    /\ Becomes(redo(EdState), "redo", FALSE)
    /\ UNCHANGED <<isDragging, dragStartParams>>

\* a keydown event on the window
KeyDown(e) ==
    /\ Becomes(handleKeyDown(EdState, e), "key:" \o KeyCall(e), FALSE)
    /\ UNCHANGED <<isDragging, dragStartParams>>



----------------------------------------------------------------------------
(* Claims about the editor's history *)

RECURSIVE UndoTimes(_, _)
UndoTimes(s, n) == IF n = 0 THEN s ELSE UndoTimes(undo(s), n - 1)

RECURSIVE RedoTimes(_, _)
RedoTimes(s, n) == IF n = 0 THEN s ELSE RedoTimes(redo(s), n - 1)

Last(seq) == seq[Len(seq)]

\* the editor's history state after the step
EdStateNext == [params |-> params', history |-> history', future |-> future']

\* C1: after n committed edits (commit clicks and drags closed with a changed
\* value) made from the default snapshot with empty stacks, n undos give the
\* default snapshot back, and n redos after them give the parameters that
\* were current after the n-th edit.
C1_UndoRedoRoundTrip ==
    ~isDragging =>
        LET undone == UndoTimes(EdState, edits) IN
        /\ undone.params = DefaultParams
        /\ RedoTimes(undone, edits).params = params

\* three committed edits, the last one a drag
C1_Witness ==
    /\ ~isDragging
    /\ edits = 3
    /\ lastEvent = "sliderEnd"
    /\ params # DefaultParams
    /\ Len(history) = 3

\* C2: a committed action (a commit click, or a drag end that detects a
\* change) leaves the future stack empty, also after undos filled it, so
\* that a following redo changes nothing.
C2_CommitClearsFuture ==
    [][edits' = edits + 1 =>
          /\ future' = <<>>
          /\ redo(EdStateNext) = EdStateNext]_vars

\* two commits with one entry in the past: the first was undone, and the
\* second, a drag end, found the undone edit in the future stack
C2_Witness ==
    /\ edits = 2
    /\ Len(history) = 1
    /\ future = <<>>
    /\ lastEvent = "sliderEnd"

\* C3: an uncommitted update leaves both stacks alone; over one drag (start,
\* uncommitted updates, end) the stacks stay as they were at the start until
\* the end, which appends the drag-start snapshot to the past when the
\* current parameters differ from it and appends nothing when they are equal.
C3_DragOneEntry ==
    [][/\ lastEvent' = "change" => (history' = history /\ future' = future)
       /\ (~isDragging /\ isDragging') =>
              /\ dragStartParams' = <<params>>
              /\ history' = history /\ future' = future
       /\ (isDragging /\ isDragging') =>
              /\ dragStartParams' = dragStartParams
              /\ history' = history /\ future' = future
       /\ (isDragging /\ ~isDragging') =>
              history' = IF dragStartParams[1] # params
                         THEN Append(history, dragStartParams[1])
                         ELSE history]_vars

\* a drag with three intermediate values that made one history entry
C3_Witness ==
    /\ lastEvent = "sliderEnd"
    /\ steps = 5
    /\ edits = 1
    /\ history = <<DefaultParams>>
    /\ params # DefaultParams

\* the history functions called on empty stacks leave the state as it is
C4_NoOpOnEmpty ==
    /\ history = <<>> =>
           /\ undo(EdState) = EdState
           /\ \A e \in KeyEvents :
                  KeyCall(e) = "undo" => handleKeyDown(EdState, e) = EdState
    /\ future = <<>> =>
           /\ redo(EdState) = EdState
           /\ \A e \in KeyEvents :
                  KeyCall(e) = "redo" => handleKeyDown(EdState, e) = EdState
    /\ DOMAIN params = KeySet

\* C4: undo with an empty past and redo with an empty future, called
\* directly or through a keyboard chord, leave past, current and future
\* unchanged, and the parameters stay a complete record (nothing fails).
C4_EmptyStacksNeverFail ==
    /\ []C4_NoOpOnEmpty
    /\ [][/\ (lastEvent' = "key:undo" /\ history = <<>>) =>
                 UNCHANGED <<params, history, future>>
          /\ (lastEvent' = "key:redo" /\ future = <<>>) =>
                 UNCHANGED <<params, history, future>>]_vars

\* the undo chord was pressed with both stacks empty
C4_Witness ==
    /\ lastEvent = "key:undo"
    /\ history = <<>>
    /\ future = <<>>
    /\ steps = 1

\* C5 as stated: no snapshot of the past or of the future equals the
\* current parameters.
C5_NoSnapshotEqualsCurrent ==
    /\ \A i \in 1..Len(history) : history[i] # params
    /\ \A i \in 1..Len(future) : future[i] # params

\* C5 amended: a committed edit that changes a value (a commit click that
\* changes one, or a drag end that commits) leaves the top of the past
\* different from the current parameters, and the future empty.
C5_CommitTopDiffers ==
    [][(edits' = edits + 1 /\ (params' # params \/ lastEvent' = "sliderEnd")) =>
          /\ Last(history') # params'
          /\ future' = <<>>]_vars

\* a rotation was committed on top of an earlier entry
C5_Witness ==
    /\ lastEvent = "rotate"
    /\ Len(history) = 2
    /\ Last(history) # params

\* the declared ranges; hue below hueBound
InRange(p, hueBound) ==
    /\ p.brightness \in 0..200
    /\ p.contrast \in 0..200
    /\ p.saturation \in 0..200
    /\ p.hue >= 0 /\ p.hue < hueBound
    /\ p.vignette \in -100..100
    /\ p.rotation \in {0, 90, 180, 270}
    /\ p.rotateX \in -60..60
    /\ p.rotateY \in -60..60
    /\ p.perspective \in 500..2500
    /\ p.cameraShake \in 0..100

\* C6 as stated: every parameter lies in its declared range, hue in [0,360).
C6_InDeclaredRange == InRange(params, 360)

\* C6 amended: every parameter of the current snapshot and of every stored
\* snapshot lies in its declared range, with hue in [0,360].
C6_InSliderRange ==
    /\ InRange(params, 361)
    /\ \A i \in 1..Len(history) : InRange(history[i], 361)
    /\ \A i \in 1..Len(future) : InRange(future[i], 361)

\* the hue slider at its upper end and the rotation one step before the wrap
C6_Witness ==
    /\ params.hue = 360
    /\ params.rotation = 270

\* C21: with a non-empty past, an undo (button or key) makes the last entry
\* of past the current parameters, leaves the entries of past before it as
\* they were and puts the parameters that were current in front of the
\* unchanged future; with a non-empty future, a redo makes the first entry of
\* future current, leaves the entries after it as they were and appends the
\* parameters that were current to the unchanged past.
C21_UndoRedoMoveOneEntry ==
    [][/\ (lastEvent' \in {"undo", "key:undo"} /\ Len(history) > 0) =>
            /\ params' = history[Len(history)]
            /\ history' = SubSeq(history, 1, Len(history) - 1)
            /\ future' = <<params>> \o future
       /\ (lastEvent' \in {"redo", "key:redo"} /\ Len(future) > 0) =>
            /\ params' = future[1]
            /\ future' = SubSeq(future, 2, Len(future))
            /\ history' = Append(history, params)]_vars

\* two edits, two undos and a redo: the redo found two entries in the future
\* and left the second one there
C21_Witness ==
    /\ lastEvent \in {"redo", "key:redo"}
    /\ edits = 2
    /\ Len(history) = 1
    /\ Len(future) = 1
    /\ params # DefaultParams
    /\ future[1] # params

\* C26: a handleSliderEnd that no handleSliderStart came before since the
\* previous handleSliderEnd (no drag is open: isDragging is false) adds no
\* entry to past and leaves future as it is, so that one handleSliderStart
\* gives at most one history entry.
C26_UnpairedEndAddsNothing ==
    [][(lastEvent' = "sliderEnd" /\ ~isDragging) =>
          (history' = history /\ future' = future)]_vars

\* C27 as stated: also when committed edits, undos and redos happen between
\* handleSliderStart and handleSliderEnd, once the drag has ended undoing
\* every entry of past gives the default snapshot back.
C27_UndoAllGivesDefault ==
    ~isDragging => UndoTimes(EdState, Len(history)).params = DefaultParams

\* C27: a handleSliderEnd that closes a drag and finds the parameters
\* changed, whatever committed edits, undos and redos happened during the
\* drag, appends the drag-start snapshot to past as it is at that moment and
\* empties future; one undo then gives the parameters of the drag start and
\* the past of before the end, and undoing every entry gives the bottom entry
\* of that past, or the drag-start snapshot where that past was empty.
C27_DragEndPushesDragStart ==
    [][(isDragging /\ lastEvent' = "sliderEnd"
           /\ dragStartParams[1] # params) =>
          /\ history' = Append(history, dragStartParams[1])
          /\ future' = <<>>
          /\ params' = params
          /\ undo(EdStateNext).params = dragStartParams[1]
          /\ undo(EdStateNext).history = history
          /\ UndoTimes(EdStateNext, Len(history')).params =
                 IF history = <<>> THEN dragStartParams[1]
                 ELSE history[1]]_vars

\* a drag start, a committed toggle and the drag end: the drag-start
\* snapshot is in the past twice, and the toggle is in no entry
C27_Witness ==
    /\ lastEvent = "sliderEnd"
    /\ steps = 3
    /\ edits = 2
    /\ history = <<DefaultParams, DefaultParams>>
    /\ params # DefaultParams
    /\ future = <<>>

----------------------------------------------------------------------------
(* Claims about the export *)

\* C15: when handleSave exports a canvas of any size, at any planar
\* rotation in {0, 90, 180, 270} and for either aspect ratio, the export's
\* width and height are in the requested ratio up to the rounding of one
\* side (one side is the exact-ratio partner of the other, rounded down),
\* its width is at most the rotation-adjusted source width and its height at
\* most the rotation-adjusted source height, the source's width and height
\* being swapped exactly when the rotation is 90 or 270.
C15_ExportFitsRatioAndSource ==
    [][lastEvent' = "save" =>
          LET e == exported'[1]
              wRatio == IF aspectRatio = "16:9" THEN 16 ELSE 9
              hRatio == IF aspectRatio = "16:9" THEN 9 ELSE 16
              swapped == params.rotation \in {90, 270}
              sourceW == IF swapped THEN canvas.height ELSE canvas.width
              sourceH == IF swapped THEN canvas.width ELSE canvas.height
          IN  /\ params.rotation \in {0, 90, 180, 270}
              /\ e.width <= sourceW
              /\ e.height <= sourceH
              /\ \/ e.height = (e.width * hRatio) \div wRatio
                 \/ e.width = (e.height * wRatio) \div hRatio]_vars

\* a 16 by 9 image turned by 90 degrees was exported for 16:9: the export is
\* as wide as the turned image and lower than it
C15_Witness ==
    /\ lastEvent = "save"
    /\ aspectRatio = "16:9"
    /\ exported # Null
    /\ exported[1].rotate = 90
    /\ exported[1].bitmap.width = 16
    /\ exported[1].bitmap.height = 9
    /\ exported[1].width = 9
    /\ exported[1].height = 5

\* parameters p with the preview-only fields set to the values in t
WithPreview(p, t) ==
    [p EXCEPT !.rotateX = t[1], !.rotateY = t[2], !.perspective = t[3],
              !.cameraShake = t[4]]

\* the values the preview-only fields are compared over
PreviewSamples ==
    SliderSamples("rotateX") \X SliderSamples("rotateY")
        \X SliderSamples("perspective") \X SliderSamples("cameraShake")

\* C16: the export handleSave hands to onSave is the one every editor state
\* gives that differs from the saved one only in tiltX, tiltY, perspective
\* depth or shake intensity: painting and exporting with any other values
\* of those four fields yields the same raster, so the export depends only
\* on the source image, the colour filters, the vignette, the planar
\* rotation and the aspect ratio.
C16_ExportIgnoresPreview ==
    [][lastEvent' = "save" =>
          \A t \in PreviewSamples :
              exported'[1] =
                  Export(applyChanges(canvas, WithPreview(params, t)),
                         WithPreview(params, t), aspectRatio)]_vars

\* an image was tilted, shaken and brightened, then exported: the export
\* holds the brightness and not the tilt
C16_Witness ==
    /\ lastEvent = "save"
    /\ params.rotateX = 60
    /\ params.cameraShake = 100
    /\ params.brightness = 200
    /\ exported[1].bitmap.filter = Filters(params)
    /\ canvas.transform = <<60, 0, 0>>

----------------------------------------------------------------------------
(* Claims about the camera shake *)

\* the shake loop is alive exactly while the editor is mounted with a
\* positive intensity: then one callback is pending, it is the one the ref
\* names and it closes over the current intensity; otherwise none is
C18_LoopOnlyWhileShaking ==
    IF editingIndex # Null /\ params.cameraShake > 0
    THEN frames = {[id |-> shakeFrameRef, cameraShake |-> params.cameraShake]}
    ELSE frames = {}

\* C18: the shake loop runs only while the shake intensity is positive and
\* the editor is mounted: in the step in which the intensity becomes 0 (by
\* the slider, by undo or by redo) or the editor is closed, the pending
\* callback is cancelled, so that no callback is pending afterwards, and a
\* callback runs only in a state with a mounted editor and a positive
\* intensity, where it requests exactly one next frame; when the intensity
\* becomes 0 the canvas is also moved back to its place.
C18_ShakeStopsAtZero ==
    /\ []C18_LoopOnlyWhileShaking
    /\ [][/\ lastEvent' = "frame" =>
                 /\ editingIndex # Null
                 /\ params.cameraShake > 0
                 /\ Cardinality(frames') = 1
          /\ (params.cameraShake > 0 /\ params'.cameraShake = 0) =>
                 /\ frames' = {}
                 /\ canvas'.margin = <<0, 0>>
          /\ (editingIndex # Null /\ editingIndex' = Null) =>
                 frames' = {}]_vars

\* the intensity came back to 0 by a redo, after frames had run: nothing is
\* pending and the canvas is back in its place
C18_Witness ==
    /\ lastEvent = "redo"
    /\ params.cameraShake = 0
    /\ Len(history) = 1
    /\ history[1].cameraShake = 50
    /\ shakeFrameRef # 0
    /\ frames = {}
    /\ canvas.margin = <<0, 0>>
    /\ steps = 7

----------------------------------------------------------------------------
(* The audio channels: the sync effect and the result video's events *)

\* id |-> url
BG_MUSIC_LIBRARY ==
    [none |-> "",
     tech |-> "https://actions.google.dev/sounds/v1/science_fiction/glitchy_digital_interface.ogg",
     space |-> "https://actions.google.dev/sounds/v1/science_fiction/ambient_space_ship_hum.ogg",
     city |-> "https://actions.google.dev/sounds/v1/ambiences/city_street_ambience.ogg",
     nature |-> "https://actions.google.dev/sounds/v1/weather/wind_gusting_through_trees.ogg"]

\* id |-> url
SFX_LIBRARY ==
    [none |-> "",
     glitch |-> "https://actions.google.dev/sounds/v1/science_fiction/digital_glitch_long.ogg",
     whoosh |-> "https://actions.google.dev/sounds/v1/foley/whoosh_impact.ogg",
     pulse |-> "https://actions.google.dev/sounds/v1/science_fiction/force_field_pulse.ogg",
     chime |-> "https://actions.google.dev/sounds/v1/science_fiction/digital_chime.ogg"]

\* library.find(e => e.id === id)?.field: <<>> is undefined
find(library, id) ==
    IF id \in DOMAIN library THEN <<library[id]>> ELSE Null

\* the two audio elements, by the name of their ref
Channels == {"bgMusicRef", "sfxRef"}

\* the library a channel's source is looked up in
Library(ch) == IF ch = "bgMusicRef" THEN BG_MUSIC_LIBRARY ELSE SFX_LIBRARY

\* src={activeBgMusic?.url} and src={activeSfx?.url}: Null is no attribute
Src(ch, bgId, sfxId) ==
    find(Library(ch), IF ch = "bgMusicRef" THEN bgId ELSE sfxId)

\* an element taken to have a resource whenever it has a src attribute
HasSrcAttribute(ch, bgId, sfxId) == Src(ch, bgId, sfxId) # Null

\* an element whose src names a resource
HasSource(ch, bgId, sfxId) ==
    Src(ch, bgId, sfxId) # Null /\ Src(ch, bgId, sfxId) # <<"">>

\* an audio element that is not playing, at its start
SilentAudio == [playing |-> FALSE, currentTime |-> 0]

\* no call on either channel
NoCalls == [ch \in Channels |-> 0]

\* the video element as it is mounted: autoPlay has not started it yet
MountedVideo ==
    [playing |-> FALSE, position |-> 0, listeners |-> NoCalls]

\* the result video is rendered
VideoShown(g) == ~g.isGenerating /\ g.videoUrl # Null

\* the loop attribute of the video element
VideoLoop == TRUE

\* video.ended where playback has reached the end of the media
ended == ~VideoLoop

\* audio.src === window.location.href: the empty src resolved
SrcIsLocation(ch, bgId, sfxId) == Src(ch, bgId, sfxId) = <<"">>

\* the sync effect's body for a mounted video: syncAudio of both channels
syncAudio(video, bgId, sfxId) ==
    [video EXCEPT !.listeners =
        [ch \in Channels |->
            IF SrcIsLocation(ch, bgId, sfxId) THEN @[ch] ELSE @[ch] + 1]]

\* the dependencies of the sync effect
SyncDeps == <<genState.videoUrl, selectedBgMusicId, selectedSfxId>>

\* a render of the dashboard and its effects on the media elements: the
\* video element is mounted while the result is shown, an audio element
\* whose src changes loads the new source from its start, and the sync
\* effect runs when one of its dependencies has changed
AudioRendered ==
    LET shown == VideoShown(genState')
        kept == VideoShown(genState) /\ videoRef # Null
        element == IF ~kept THEN MountedVideo
                   ELSE IF genState'.videoUrl # genState.videoUrl
                        THEN [videoRef[1] EXCEPT !.playing = FALSE,
                                                 !.position = 0]
                        ELSE videoRef[1]
    IN  /\ videoRef' =
               IF ~shown THEN Null
               ELSE IF SyncDeps' # SyncDeps
                    THEN <<syncAudio(element, selectedBgMusicId',
                                     selectedSfxId')>>
                    ELSE <<element>>
        /\ audio' =
               [ch \in Channels |->
                   IF Src(ch, selectedBgMusicId', selectedSfxId')
                        # Src(ch, selectedBgMusicId, selectedSfxId)
                   THEN SilentAudio ELSE audio[ch]]
        /\ mediaCalls' = NoCalls

\* the outcomes of the play calls of one event, by channel
PlayOutcomes == [Channels -> {"starts", "rejects"}]

\* the video's play event (autoPlay, or the controls): every play listener
\* calls audio.play(), and a rejection is dropped by the empty catch
VideoPlays(outcome) ==
    /\ videoRef # Null
    /\ ~videoRef[1].playing
    /\ \A ch \in Channels :
           outcome[ch] = "starts" =>
               /\ videoRef[1].listeners[ch] > 0
               /\ HasSource(ch, selectedBgMusicId, selectedSfxId)
    /\ videoRef' = <<[videoRef[1] EXCEPT !.playing = TRUE]>>
    /\ audio' = [ch \in Channels |->
                    IF outcome[ch] = "starts"
                    THEN [audio[ch] EXCEPT !.playing = TRUE]
                    ELSE audio[ch]]
    /\ mediaCalls' = videoRef[1].listeners
    /\ UNCHANGED <<editorVars, jobVars, otherVars>>

\* the video's pause event: every pause listener calls audio.pause()
VideoPauses ==
    /\ videoRef # Null
    /\ videoRef[1].playing
    /\ videoRef' = <<[videoRef[1] EXCEPT !.playing = FALSE]>>
    /\ audio' = [ch \in Channels |->
                    IF videoRef[1].listeners[ch] > 0
                    THEN [audio[ch] EXCEPT !.playing = FALSE]
                    ELSE audio[ch]]
    /\ mediaCalls' = videoRef[1].listeners
    /\ UNCHANGED <<editorVars, jobVars, otherVars>>

\* playback goes on: the playing elements leave their start
TimePasses ==
    /\ videoRef # Null
    /\ videoRef[1].playing
    /\ videoRef[1].position = 0
    /\ videoRef' = <<[videoRef[1] EXCEPT !.position = 1]>>
    /\ audio' = [ch \in Channels |->
                    IF audio[ch].playing
                    THEN [audio[ch] EXCEPT !.currentTime = 1]
                    ELSE audio[ch]]
    /\ mediaCalls' = NoCalls
    /\ UNCHANGED <<editorVars, jobVars, otherVars>>

\* playback reaches the end of the video: a looping video starts over, and
\* the timeupdate listeners test video.ended
VideoReachesEnd ==
    /\ videoRef # Null
    /\ videoRef[1].playing
    /\ videoRef[1].position = 1
    /\ videoRef' = <<[videoRef[1] EXCEPT !.position = 0,
                                         !.playing = VideoLoop]>>
    /\ audio' = [ch \in Channels |->
                    IF ended /\ videoRef[1].listeners[ch] > 0
                    THEN [audio[ch] EXCEPT !.currentTime = 0,
                                           !.playing = FALSE]
                    ELSE audio[ch]]
    /\ mediaCalls' = NoCalls
    /\ UNCHANGED <<editorVars, jobVars, otherVars>>

----------------------------------------------------------------------------
(* The generation job: generateVideo, cut at its awaits *)

LOADING_MESSAGES ==
    <<"Analyzing your frames...",
      "Synthesizing background textures...",
      "Applying temporal coherence...",
      "Gemini is dreaming up your video...",
      "Optimizing cinematic motion...",
      "Finalizing rendering pass...">>

\* the step of the synthetic progress and its cap
ProgressStep == 15
ProgressCap == 95

\* the initial useState value; error and videoUrl are absent
InitialGenState ==
    [isGenerating |-> FALSE, status |-> "", progress |-> 0,
     error |-> Null, videoUrl |-> Null]

RunIds == 1..MaxRuns

\* a call that has not been made yet; waits counts its timers that have
\* not fired and pending its requests that have not been answered
IdleRun ==
    [pc |-> "idle", messageIndex |-> 0, ticks |-> 0, calls |-> 0,
     waits |-> 0, pending |-> 0, raised |-> Null, resets |-> 0]

\* an error message is a sequence of text fragments; <<>> is the empty
\* message, which JavaScript treats like an absent one
CredentialSignature == "Requested entity was not found."

ErrorMessages ==
    {<<"NOT_FOUND: ", CredentialSignature>>, <<"Failed to fetch">>, <<>>}

\* String.prototype.includes on a message
includes(message, text) == \E i \in 1..Len(message) : message[i] = text

\* err.message || "An unexpected error occurred."
ErrorText(message) ==
    IF message # <<>> THEN message ELSE <<"An unexpected error occurred.">>

\* what the backend answers to generateVideos and to getVideosOperation:
\* the operation, done or not, with or without a video uri
Operations ==
    {[done |-> FALSE, uri |-> FALSE],
     [done |-> TRUE,  uri |-> TRUE],
     [done |-> TRUE,  uri |-> FALSE]}

\* the awaits at which a rejection reaches the catch block
Awaiting == {"awaitSubmit", "awaitPoll", "awaitFetch", "awaitBlob"}

\* a call that is between its submission and its return
InFlight == Awaiting \cup {"wait"}

\* the first call not made yet
FreshRun == CHOOSE r \in RunIds : runs[r].pc = "idle" /\ \A q \in RunIds : runs[q].pc = "idle" => r <= q

\* the code after an operation was received: the while test, then the
\* download link
AfterOperation(run, op) ==
    IF ~op.done THEN [run EXCEPT !.pc = "wait", !.waits = @ + 1]
    ELSE IF op.uri
    THEN [run EXCEPT !.pc = "awaitFetch", !.calls = @ + 1, !.pending = @ + 1]
    ELSE [run EXCEPT !.pc = "returned"]

\* the progress capped at 100 instead of 95
NextProgressToFull(progress) ==
    IF progress + ProgressStep <= 100 THEN progress + ProgressStep ELSE 100

\* the progress set by one poll tick
NextProgress(progress) ==
    IF progress + ProgressStep <= ProgressCap
    THEN progress + ProgressStep ELSE ProgressCap

\* generateVideo without its test of the starting image
generateVideoUnchecked ==
    /\ \E r \in RunIds : runs[r].pc = "idle"
    /\ genState' = [isGenerating |-> TRUE, status |-> LOADING_MESSAGES[1],
                    progress |-> 0, error |-> Null, videoUrl |-> Null]
    /\ runs' = [runs EXCEPT ![FreshRun] =
                   [@ EXCEPT !.pc = "awaitSubmit", !.calls = 1,
                                  !.pending = 1]]
    /\ UNCHANGED <<startImage, alerts, apiKeySelected>>

\* generateVideo merging its start into the previous job state
generateVideoKeepsPrevious ==
    IF ~startImage
    THEN /\ alerts < MaxAlerts
         /\ alerts' = alerts + 1
         /\ UNCHANGED <<startImage, genState, runs, apiKeySelected>>
    ELSE /\ \E r \in RunIds : runs[r].pc = "idle"
         /\ genState' = [genState EXCEPT !.isGenerating = TRUE,
                                         !.status = LOADING_MESSAGES[1],
                                         !.progress = 0]
         /\ runs' = [runs EXCEPT ![FreshRun] =
                        [@ EXCEPT !.pc = "awaitSubmit", !.calls = 1,
                                  !.pending = 1]]
         /\ UNCHANGED <<startImage, alerts, apiKeySelected>>

\* generateVideo up to its first await
generateVideo ==
    IF ~startImage
    THEN /\ alerts < MaxAlerts
         /\ alerts' = alerts + 1
         /\ UNCHANGED <<startImage, genState, runs, apiKeySelected>>
    ELSE /\ \E r \in RunIds : runs[r].pc = "idle"
         /\ genState' = [isGenerating |-> TRUE, status |-> LOADING_MESSAGES[1],
                         progress |-> 0, error |-> Null, videoUrl |-> Null]
         /\ runs' = [runs EXCEPT ![FreshRun] =
                        [@ EXCEPT !.pc = "awaitSubmit", !.calls = 1,
                                  !.pending = 1]]
         /\ UNCHANGED <<startImage, alerts, apiKeySelected>>

\* the button disabled only for a missing image
RenderDisabledIgnoresBusy == ~startImage

\* disabled of the Render Scene button
RenderDisabled == genState.isGenerating \/ ~startImage

\* onClick of the Render Scene button
RenderSceneClick ==
    /\ ~RenderDisabled
    /\ generateVideo
    /\ UNCHANGED <<editorVars, otherVars>>
    /\ AudioRendered

\* generateVideo called while it has no starting image
CallWithoutImage ==
    /\ ~startImage
    /\ generateVideo
    /\ UNCHANGED <<editorVars, otherVars>>
    /\ AudioRendered

\* ai.models.generateVideos resolves with operation op
SubmitResolve(r, op) ==
    /\ runs[r].pc = "awaitSubmit"
    /\ runs' = [runs EXCEPT ![r] =
                   AfterOperation([@ EXCEPT !.messageIndex = 0,
                                            !.pending = @ - 1], op)]
    /\ UNCHANGED <<startImage, genState, alerts, apiKeySelected>>
    /\ UNCHANGED <<editorVars, otherVars>>
    /\ AudioRendered

\* the poll driven by a repeating timer, armed again whenever it fires
PollTickRearms(r) ==
    /\ runs[r].pc = "wait"
    /\ runs[r].ticks < MaxPolls
    /\ LET messageIndex == (runs[r].messageIndex + 1) % Len(LOADING_MESSAGES) IN
       /\ genState' = [genState EXCEPT
                          !.status = LOADING_MESSAGES[messageIndex + 1],
                          !.progress = NextProgress(@)]
       /\ runs' = [runs EXCEPT ![r] =
                      [@ EXCEPT !.pc = "awaitPoll",
                                !.messageIndex = messageIndex,
                                !.ticks = @ + 1, !.calls = @ + 1,
                                !.pending = @ + 1]]
    /\ UNCHANGED <<startImage, alerts, apiKeySelected>>
    /\ UNCHANGED <<editorVars, otherVars>>
    /\ AudioRendered

\* the 10 s timer of the poll loop fires
PollTick(r) ==
    /\ runs[r].pc = "wait"
    /\ runs[r].ticks < MaxPolls
    /\ LET messageIndex == (runs[r].messageIndex + 1) % Len(LOADING_MESSAGES) IN
       /\ genState' = [genState EXCEPT
                          !.status = LOADING_MESSAGES[messageIndex + 1],
                          !.progress = NextProgress(@)]
       /\ runs' = [runs EXCEPT ![r] =
                      [@ EXCEPT !.pc = "awaitPoll",
                                !.messageIndex = messageIndex,
                                !.ticks = @ + 1, !.calls = @ + 1,
                                !.waits = @ - 1, !.pending = @ + 1]]
    /\ UNCHANGED <<startImage, alerts, apiKeySelected>>
    /\ UNCHANGED <<editorVars, otherVars>>
    /\ AudioRendered

\* ai.operations.getVideosOperation resolves with operation op
PollResolve(r, op) ==
    /\ runs[r].pc = "awaitPoll"
    /\ runs' = [runs EXCEPT ![r] =
                   AfterOperation([@ EXCEPT !.pending = @ - 1], op)]
    /\ UNCHANGED <<startImage, genState, alerts, apiKeySelected>>
    /\ UNCHANGED <<editorVars, otherVars>>
    /\ AudioRendered

\* fetch resolves with the response
FetchResolve(r) ==
    /\ runs[r].pc = "awaitFetch"
    /\ runs' = [runs EXCEPT ![r] = [@ EXCEPT !.pc = "awaitBlob"]]
    /\ UNCHANGED <<startImage, genState, alerts, apiKeySelected>>
    /\ UNCHANGED <<editorVars, otherVars>>
    /\ AudioRendered

\* the success merged into the previous job state, its progress kept
BlobResolveMerges(r) ==
    /\ runs[r].pc = "awaitBlob"
    /\ genState' = [genState EXCEPT !.isGenerating = FALSE,
                                    !.status = "Generation complete!",
                                    !.videoUrl = <<r>>]
    /\ runs' = [runs EXCEPT ![r] = [@ EXCEPT !.pc = "succeeded",
                                              !.pending = @ - 1]]
    /\ UNCHANGED <<startImage, alerts, apiKeySelected>>
    /\ UNCHANGED <<editorVars, otherVars>>
    /\ AudioRendered

\* videoResponse.blob resolves: the object URL is made and the job succeeds
BlobResolve(r) ==
    /\ runs[r].pc = "awaitBlob"
    /\ genState' = [isGenerating |-> FALSE, status |-> "Generation complete!",
                    progress |-> 100, error |-> Null, videoUrl |-> <<r>>]
    /\ runs' = [runs EXCEPT ![r] = [@ EXCEPT !.pc = "succeeded",
                                              !.pending = @ - 1]]
    /\ UNCHANGED <<startImage, alerts, apiKeySelected>>
    /\ UNCHANGED <<editorVars, otherVars>>
    /\ AudioRendered

\* the catch block leaving isGenerating set
CatchStaysGenerating(r, message) ==
    LET reset == includes(message, CredentialSignature) IN
    /\ apiKeySelected' = IF reset THEN <<FALSE>> ELSE apiKeySelected
    /\ genState' = [isGenerating |-> TRUE, status |-> "Error",
                    progress |-> 0, error |-> <<ErrorText(message)>>,
                    videoUrl |-> Null]
    /\ runs' = [runs EXCEPT ![r] =
                   [@ EXCEPT !.pc = "failed", !.raised = <<message>>,
                             !.pending = @ - 1,
                             !.resets = IF reset THEN @ + 1 ELSE @]]

\* the catch block calling onResetKey for every error
CatchResetsAlways(r, message) ==
    /\ apiKeySelected' = <<FALSE>>
    /\ genState' = [isGenerating |-> FALSE, status |-> "Error",
                    progress |-> 0, error |-> <<ErrorText(message)>>,
                    videoUrl |-> Null]
    /\ runs' = [runs EXCEPT ![r] =
                   [@ EXCEPT !.pc = "failed", !.raised = <<message>>,
                             !.pending = @ - 1,
                             !.resets = @ + 1]]

\* the catch block, entered with an error whose message is given
Catch(r, message) ==
    LET reset == includes(message, CredentialSignature) IN
    /\ apiKeySelected' = IF reset THEN <<FALSE>> ELSE apiKeySelected
    /\ genState' = [isGenerating |-> FALSE, status |-> "Error",
                    progress |-> 0, error |-> <<ErrorText(message)>>,
                    videoUrl |-> Null]
    /\ runs' = [runs EXCEPT ![r] =
                   [@ EXCEPT !.pc = "failed", !.raised = <<message>>,
                             !.pending = @ - 1,
                             !.resets = IF reset THEN @ + 1 ELSE @]]

\* the pending await of call r rejects
Reject(r, message) ==
    /\ runs[r].pc \in Awaiting
    /\ Catch(r, message)
    /\ UNCHANGED <<startImage, alerts>>
    /\ UNCHANGED <<editorVars, otherVars>>
    /\ AudioRendered

\* a file is chosen for the start slot, or the editor's export is saved
SetStartImage ==
    /\ ~startImage
    /\ startImage' = TRUE
    /\ UNCHANGED <<genState, runs, alerts, apiKeySelected>>
    /\ UNCHANGED <<editorVars, otherVars>>
    /\ AudioRendered

\* the remove button of the start slot
RemoveStartImage ==
    /\ startImage
    /\ startImage' = FALSE
    /\ UNCHANGED <<genState, runs, alerts, apiKeySelected>>
    /\ UNCHANGED <<editorVars, otherVars>>
    /\ AudioRendered

\* the steps of the calls in flight
RunStep ==
    \E r \in RunIds :
        \/ \E op \in Operations : SubmitResolve(r, op)
        \/ PollTick(r)
        \/ \E op \in Operations : PollResolve(r, op)
        \/ FetchResolve(r)
        \/ BlobResolve(r)
        \/ \E message \in ErrorMessages : Reject(r, message)


----------------------------------------------------------------------------
(* Claims about the generation job *)

\* C7: generateVideo called with no starting image leaves the job state
\* (isGenerating, status, progress, error, videoUrl) as it is and starts no
\* call and no backend request.
C7_NoImageNoJob ==
    [][CallWithoutImage => UNCHANGED <<genState, runs>>]_vars

\* the call was refused after an earlier job had failed, whose state stays
C7_Witness ==
    /\ alerts = 1
    /\ ~startImage
    /\ genState.status = "Error"
    /\ genState.error # Null

\* C8: while a job is generating the progress does not decrease from one
\* state to the next, and it is below 100 in every state in which the job is
\* still generating or no call has observed a finished operation with its
\* video fetched.
C8_ProgressMonotoneBelowFull ==
    [][/\ (genState.isGenerating /\ genState'.isGenerating) =>
              genState'.progress >= genState.progress
       /\ genState'.isGenerating => genState'.progress < 100
       /\ genState'.progress = 100 =>
              \E r \in RunIds : runs'[r].pc = "succeeded"]_vars

\* the progress stands at its cap after the last poll tick of the model
C8_Witness ==
    /\ genState.isGenerating
    /\ genState.progress = 95
    /\ \E r \in RunIds : runs[r].pc = "awaitPoll" /\ runs[r].ticks >= 7

\* C9: at most one call of generateVideo is in flight, and while one is,
\* isGenerating holds and the Render Scene button is disabled.
C9_OneJobInFlight ==
    /\ Cardinality({r \in RunIds : runs[r].pc \in InFlight}) <= 1
    /\ (\E r \in RunIds : runs[r].pc \in InFlight) =>
           (genState.isGenerating /\ RenderDisabled)

\* a second job in flight after the first one ended, with an image present
C9_Witness ==
    /\ runs[1].pc \in {"succeeded", "failed"}
    /\ runs[2].pc \in InFlight
    /\ startImage

\* the step in which call r enters the catch block
Fails(r) == runs[r].pc \in Awaiting /\ runs'[r].pc = "failed"

\* C10 as stated: an error raised at an await moves the job to Failed with
\* isGenerating false and the raw error message as its error, and a failed
\* call makes no further backend request.
C10_FailureShowsRawMessage ==
    [][\A r \in RunIds :
          /\ Fails(r) =>
                 /\ ~genState'.isGenerating
                 /\ genState'.error = runs'[r].raised
          /\ runs[r].pc = "failed" => runs'[r] = runs[r]]_vars

\* C10 amended: an error raised at an await moves the job to Failed with
\* isGenerating false and, as its error, the raw error message when that is
\* not empty and the text "An unexpected error occurred." when it is; a
\* failed call makes no further backend request.
C10_FailureShowsMessageOrFallback ==
    [][\A r \in RunIds :
          /\ Fails(r) =>
                 /\ ~genState'.isGenerating
                 /\ genState'.error =
                        IF runs'[r].raised[1] # <<>> THEN runs'[r].raised
                        ELSE <<(<<"An unexpected error occurred.">>)>>
          /\ runs[r].pc = "failed" => runs'[r] = runs[r]]_vars

\* a poll failed with a message, which the job shows
C10_Witness ==
    \E r \in RunIds :
        /\ runs[r].pc = "failed"
        /\ runs[r].calls = 3
        /\ runs[r].raised = <<(<<"Failed to fetch">>)>>
        /\ genState.error = runs[r].raised
        /\ ~genState.isGenerating

\* C11: a failure whose message contains "Requested entity was not found."
\* calls onResetKey exactly once in the step that fails (the call's count of
\* resets grows by one and the key is marked not selected) and sets the
\* Failed state; a failure without that text leaves the count and the key
\* as they are, and no other step of a call changes its count.
C11_CredentialFailureResetsOnce ==
    [][\A r \in RunIds :
          /\ Fails(r) =>
                 LET signed == includes(runs'[r].raised[1], CredentialSignature) IN
                 /\ genState'.status = "Error"
                 /\ ~genState'.isGenerating
                 /\ genState'.error # Null
                 /\ signed => /\ runs'[r].resets = runs[r].resets + 1
                              /\ apiKeySelected' = <<FALSE>>
                 /\ ~signed => /\ runs'[r].resets = runs[r].resets
                               /\ apiKeySelected' = apiKeySelected
          /\ ~Fails(r) => runs'[r].resets = runs[r].resets]_vars

\* a poll was rejected with the credential text: one reset, the job Failed
C11_Witness ==
    \E r \in RunIds :
        /\ runs[r].pc = "failed"
        /\ runs[r].ticks >= 1
        /\ includes(runs[r].raised[1], CredentialSignature)
        /\ runs[r].resets = 1
        /\ apiKeySelected = <<FALSE>>
        /\ genState.status = "Error"

\* the step in which call r is submitted
Submits(r) == runs[r].pc = "idle" /\ runs'[r].pc = "awaitSubmit"

\* C12: every accepted submission, whatever the previous job left in the job
\* state, gives a job state with isGenerating set, progress 0, the first
\* status message, no error and no video reference, and the submitted call
\* starts from nothing: one request made, no poll tick, message index 0.
C12_SubmissionStartsNewJob ==
    [][\A r \in RunIds :
          Submits(r) =>
              /\ genState' = [isGenerating |-> TRUE,
                              status |-> LOADING_MESSAGES[1],
                              progress |-> 0, error |-> Null,
                              videoUrl |-> Null]
              /\ runs'[r] = [IdleRun EXCEPT !.pc = "awaitSubmit", !.calls = 1,
                                            !.pending = 1]
              /\ \A q \in RunIds \ {r} : runs'[q] = runs[q]]_vars

\* a second job was submitted after the first succeeded: its video
\* reference and its progress of 100 are gone
C12_Witness ==
    /\ runs[1].pc = "succeeded"
    /\ runs[1].ticks >= 1
    /\ runs[2].pc = "awaitSubmit"
    /\ genState.videoUrl = Null
    /\ genState.progress = 0
    /\ genState.status = LOADING_MESSAGES[1]

\* the job state of a job that succeeded with the video of call r
Succeeded(r) ==
    [isGenerating |-> FALSE, status |-> "Generation complete!",
     progress |-> 100, error |-> Null, videoUrl |-> <<r>>]

\* C13: a call reaches the asset fetch only from the answer to its
\* submission or to a poll; when the fetch of such a call returns (the
\* response and then its body) the job becomes Succeeded, with isGenerating false, progress
\* 100, the status "Generation complete!" and the video reference of that
\* call, unless the fetch fails; and the video reference is set in no other
\* step and stands only in the Succeeded state.
C13_SucceededOnlyAfterFetch ==
    [][/\ \A r \in RunIds :
              /\ (runs[r].pc = "awaitBlob" /\ runs'[r].pc # "awaitBlob") =>
                     \/ runs'[r].pc = "succeeded" /\ genState' = Succeeded(r)
                     \/ Fails(r)
              /\ (runs[r].pc = "awaitFetch" /\ runs'[r].pc # "awaitFetch") =>
                     \/ runs'[r].pc = "awaitBlob" /\ genState' = genState
                     \/ Fails(r)
              /\ (runs[r].pc # "awaitFetch" /\ runs'[r].pc = "awaitFetch") =>
                     runs[r].pc \in {"awaitSubmit", "awaitPoll"}
              /\ runs'[r].pc = "succeeded" =>
                     runs[r].pc \in {"awaitBlob", "succeeded"}
       /\ genState'.videoUrl # Null =>
              \/ genState' = genState
              \/ \E r \in RunIds :
                     /\ runs[r].pc = "awaitBlob"
                     /\ runs'[r].pc = "succeeded"
                     /\ genState' = Succeeded(r)]_vars

\* the second job's video was fetched after two polls
C13_Witness ==
    /\ runs[2].pc = "succeeded"
    /\ runs[2].ticks = 2
    /\ runs[2].calls = 4
    /\ genState = Succeeded(2)

\* in every state a call has at most one timer or request outstanding
C14_OneOutstanding ==
    \A r \in RunIds :
        /\ runs[r].waits + runs[r].pending <= 1
        /\ runs[r].waits = 1 <=> runs[r].pc = "wait"
        /\ runs[r].pending = 1 <=> runs[r].pc \in Awaiting

\* C14: the poll steps of one call are strictly sequential: the call never
\* has two timers, two requests, or a timer and a request outstanding; a
\* poll request is issued only in the step in which the call's one timer
\* fires, with no request outstanding; and a timer is set only in the step
\* in which the answer to the call's one outstanding request is observed.
C14_PollsSequential ==
    /\ []C14_OneOutstanding
    /\ [][\A r \in RunIds :
              /\ runs'[r].ticks # runs[r].ticks =>
                     /\ runs[r].waits = 1 /\ runs'[r].waits = 0
                     /\ runs[r].pending = 0 /\ runs'[r].pending = 1
                     /\ runs'[r].ticks = runs[r].ticks + 1
              /\ runs'[r].waits > runs[r].waits =>
                     /\ runs[r].pending = 1 /\ runs'[r].pending = 0
                     /\ runs[r].waits = 0]_vars

\* the third poll request of a call is outstanding, its timer spent
C14_Witness ==
    \E r \in RunIds :
        /\ runs[r].pc = "awaitPoll"
        /\ runs[r].ticks = 3
        /\ runs[r].calls = 4
        /\ runs[r].waits = 0
        /\ runs[r].pending = 1

\* C25: once a call has been told that its operation is done, with or
\* without a video uri, or one of its requests has failed, the call comes to
\* Succeeded or Failed with isGenerating false: the job does not stay in the
\* generating state.
C25_EveryJobEnds ==
    \A r \in RunIds :
        (runs[r].pc \in {"awaitFetch", "awaitBlob", "returned"})
            ~> (runs[r].pc \in {"succeeded", "failed"}
                   /\ ~genState.isGenerating)

\* C22: while a call has not been told that its operation is done, after
\* its k-th poll tick the status is entry k mod 6 of the message list
\* (entry 0 from the submission on) and the progress is min(15 * k, 95).
C22_StatusAndProgressOfTick ==
    \A r \in RunIds :
        runs[r].pc \in {"awaitSubmit", "wait", "awaitPoll"} =>
            LET k == runs[r].ticks IN
            /\ genState.status = LOADING_MESSAGES[(k % 6) + 1]
            /\ genState.progress = IF 15 * k <= 95 THEN 15 * k ELSE 95

\* the seventh tick: the message list has wrapped around to its second
\* entry and the progress stands at the cap
C22_Witness ==
    \E r \in RunIds :
        /\ runs[r].pc = "awaitPoll"
        /\ runs[r].ticks = 7
        /\ genState.status = "Synthesizing background textures..."
        /\ genState.progress = 95

----------------------------------------------------------------------------
(* The prompt composer: enginePrompt and the handlers of its inputs *)

\* A text is a sequence of tokens.  The token " " is one white-space
\* character; every other token is a run of characters, and a token that
\* can stand first or last in a text neither starts nor ends with white
\* space, so that trimming a text is dropping " " tokens from its ends.

\* id |-> prompt
PRESETS ==
    [cinematic |-> <<"A cinematic slow-motion sweep of the background. Elegant soft lighting, shallow depth of field, and a high-end film stock look. The camera moves slowly and smoothly.">>,
     tech |-> <<"A futuristic coding workspace background with holographic VS Code, Python, and Google Gemini logos floating. Subtle neon flickers, tech-noir aesthetic, and clean data visualizations.">>,
     brand |-> <<"Soft studio lighting with YouTube and Google AI Studio logos orbiting gracefully in the background. Smooth circular motion, professional brand showcase feel, clean minimalist style.">>,
     dreamy |-> <<"An ethereal, dreamy animation. Soft glowing particles, pastel color palette, and a slow, smooth transition between background elements with light leaks.">>,
     action |-> <<"Fast-paced dynamic camera zoom and energetic light streaks in the background. High contrast, vibrant colors, and an intense action movie energy.">>]

\* id |-> keyword
ADVANCED_CAM_ANGLES ==
    [wide |-> "captured from a sprawling wide-angle perspective",
     closeup |-> "framed in an intimate close-up shot with extreme detail",
     birdseye |-> "from a high-altitude bird's eye view looking straight down",
     lowangle |-> "filmed from a dramatic low-angle perspective looking upward",
     pov |-> "from a first-person point-of-view perspective"]

\* id |-> name
ADVANCED_MOTION ==
    [pan |-> "Smooth Pan", tilt |-> "Vertical Tilt", zoomin |-> "Zoom In",
     zoomout |-> "Zoom Out", orbit |-> "360 Orbit", dolly |-> "Dolly Push"]

\* id |-> name
ADVANCED_ATMOSPHERE ==
    [volumetric |-> "Volumetric", neon |-> "Neon Glow", fog |-> "Ethereal Fog",
     rain |-> "Heavy Rain", golden |-> "Golden Hour",
     monochrome |-> "Film Noir"]

\* a value in a template literal: undefined is written out
InTemplate(v) == IF v = Null THEN "undefined" ELSE v[1]

RECURSIVE join(_)
\* Array.prototype.join(', '): an undefined element is written as nothing
join(values) ==
    IF values = <<>> THEN <<>>
    ELSE (IF values[1] = Null THEN <<>> ELSE <<values[1][1]>>)
         \o (IF Len(values) > 1 THEN <<", ">> ELSE <<>>)
         \o join(Tail(values))

RECURSIVE trimStart(_)
trimStart(text) ==
    IF text # <<>> /\ Head(text) = " " THEN trimStart(Tail(text)) ELSE text

RECURSIVE trimEnd(_)
trimEnd(text) ==
    IF text # <<>> /\ text[Len(text)] = " "
    THEN trimEnd(SubSeq(text, 1, Len(text) - 1)) ELSE text

\* String.prototype.trim
trim(text) == trimEnd(trimStart(text))

\* the body of enginePrompt with the stabilization clause before the
\* motion-blur clause
composedStabilizationFirst(p, advanced, angle, motion, atmos, sp, blur, stab) ==
    LET speedInstruction ==
            IF sp <= 60
            THEN <<" ", "The animation should be very slow, deliberate, and serene.">>
            ELSE IF sp >= 140
            THEN <<" ", "The animation should be fast-paced, high-energy, and dynamic.">>
            ELSE <<>>
        atmosphereStr ==
            IF Len(atmos) > 0
            THEN <<" with ">>
                 \o join([i \in 1..Len(atmos) |->
                             find(ADVANCED_ATMOSPHERE, atmos[i])])
                 \o <<" atmospheric effects">>
            ELSE <<>>
        scene ==
            IF advanced
            THEN <<". Scene ", InTemplate(find(ADVANCED_CAM_ANGLES, angle)),
                   ". The animation uses a ",
                   InTemplate(find(ADVANCED_MOTION, motion)),
                   " movement style">> \o atmosphereStr \o <<".">>
            ELSE <<>>
    IN  p \o scene \o <<" ">> \o speedInstruction
          \o (IF stab
              THEN <<" ", "Ensure perfectly stabilized, jitter-free camera movement.">>
              ELSE <<>>)
          \o (IF blur THEN <<" ", "Apply realistic cinematic motion blur.">>
              ELSE <<>>)

\* the body of enginePrompt up to its return, which trims it
composed(p, advanced, angle, motion, atmos, sp, blur, stab) ==
    LET speedInstruction ==
            IF sp <= 60
            THEN <<" ", "The animation should be very slow, deliberate, and serene.">>
            ELSE IF sp >= 140
            THEN <<" ", "The animation should be fast-paced, high-energy, and dynamic.">>
            ELSE <<>>
        atmosphereStr ==
            IF Len(atmos) > 0
            THEN <<" with ">>
                 \o join([i \in 1..Len(atmos) |->
                             find(ADVANCED_ATMOSPHERE, atmos[i])])
                 \o <<" atmospheric effects">>
            ELSE <<>>
        scene ==
            IF advanced
            THEN <<". Scene ", InTemplate(find(ADVANCED_CAM_ANGLES, angle)),
                   ". The animation uses a ",
                   InTemplate(find(ADVANCED_MOTION, motion)),
                   " movement style">> \o atmosphereStr \o <<".">>
            ELSE <<>>
    IN  p \o scene \o <<" ">> \o speedInstruction
          \o (IF blur THEN <<" ", "Apply realistic cinematic motion blur.">>
              ELSE <<>>)
          \o (IF stab
              THEN <<" ", "Ensure perfectly stabilized, jitter-free camera movement.">>
              ELSE <<>>)

\* the function enginePrompt memoises; the speed is in hundredths
enginePrompt(p, advanced, angle, motion, atmos, sp, blur, stab) ==
    trim(composed(p, advanced, angle, motion, atmos, sp, blur, stab))

\* a dependency list that leaves the speed out
MemoDepsWithoutSpeed ==
    <<prompt, isAdvancedMode, camAngle, motionType, atmosphere,
      motionBlur, stabilization>>

\* the dependency list of the useMemo
MemoDeps ==
    <<prompt, isAdvancedMode, camAngle, motionType, atmosphere, speed,
      motionBlur, stabilization>>

\* the render after a handler: useMemo computes enginePrompt again when a
\* dependency has changed and keeps its value otherwise
Rendered ==
    /\ enginePromptMemo' =
            IF MemoDeps' # MemoDeps
            THEN enginePrompt(prompt', isAdvancedMode', camAngle', motionType',
                              atmosphere', speed', motionBlur', stabilization')
            ELSE enginePromptMemo
    /\ AudioRendered

\* the texts typed into the prompt field in the model
TypedPrompts == {<<>>, <<" ", "A cat on a roof", " ", " ">>}

\* the entries of each library that are clicked in the model
PresetSamples == {"cinematic", "tech"}
CamAngleSamples == {"wide", "pov"}
MotionSamples == {"pan", "dolly"}
AtmosphereSamples == {"fog"}

\* what JSON.parse(response.text || '{}') gives in the model: a field is
\* <<>> when the object lacks it.  The first answer is complete and names
\* library entries, the second names none and has no audio, the others have
\* a speed only, the last with an empty atmosphere list
Suggestions ==
    {[cameraAngle |-> <<"closeup">>, motionType |-> <<"orbit">>,
      atmosphere |-> <<(<<"neon", "rain">>)>>,
      prompt |-> <<(<<"An owl glides over the valley at dusk.">>)>>,
      directorVision |-> <<"Slow aerial reveal.">>,
      suggestedAudio |-> <<"space">>, suggestedSfx |-> <<"chime">>,
      speed |-> <<60>>],
     [cameraAngle |-> <<"dutch">>, motionType |-> <<"spin">>,
      atmosphere |-> <<(<<"smoke">>)>>,
      prompt |-> <<(<<"Sparks fly.", " ">>)>>,
      directorVision |-> <<"Fast and loud.">>,
      suggestedAudio |-> Null, suggestedSfx |-> Null,
      speed |-> <<140>>],
     [cameraAngle |-> Null, motionType |-> Null, atmosphere |-> Null,
      prompt |-> Null, directorVision |-> Null,
      suggestedAudio |-> Null, suggestedSfx |-> Null,
      speed |-> <<61>>],
     [cameraAngle |-> Null, motionType |-> Null,
      atmosphere |-> <<(<<>>)>>,
      prompt |-> Null, directorVision |-> Null,
      suggestedAudio |-> Null, suggestedSfx |-> Null,
      speed |-> <<139>>]}

\* if (res.field) set(res.field)
IfSet(field, current) == IF field # Null THEN field[1] ELSE current

\* onChange of the prompt field
setPromptText(text) ==
    /\ prompt' = text
    /\ activePreset' = "custom"
    /\ directorVision' = Null
    /\ UNCHANGED <<motionBlur, stabilization, speed, selectedBgMusicId,
                   selectedSfxId, isAdvancedMode, camAngle, motionType,
                   atmosphere, isSuggesting>>
    /\ UNCHANGED <<editorVars, jobVars, appVars>>
    /\ Rendered

\* onClick of a preset button
applyPreset(id) ==
    /\ prompt' = PRESETS[id]
    /\ activePreset' = id
    /\ directorVision' = Null
    /\ UNCHANGED <<motionBlur, stabilization, speed, selectedBgMusicId,
                   selectedSfxId, isAdvancedMode, camAngle, motionType,
                   atmosphere, isSuggesting>>
    /\ UNCHANGED <<editorVars, jobVars, appVars>>
    /\ Rendered

\* onClick of the Advanced Mode button
ToggleAdvancedMode ==
    /\ isAdvancedMode' = ~isAdvancedMode
    /\ UNCHANGED <<prompt, activePreset, motionBlur, stabilization, speed,
                   selectedBgMusicId, selectedSfxId, camAngle, motionType,
                   atmosphere, isSuggesting, directorVision>>
    /\ UNCHANGED <<editorVars, jobVars, appVars>>
    /\ Rendered

\* onClick of a camera angle button
setCamAngle(id) ==
    /\ camAngle' = id
    /\ UNCHANGED <<prompt, activePreset, motionBlur, stabilization, speed,
                   selectedBgMusicId, selectedSfxId, isAdvancedMode,
                   motionType, atmosphere, isSuggesting, directorVision>>
    /\ UNCHANGED <<editorVars, jobVars, appVars>>
    /\ Rendered

\* onClick of a motion button
setMotionType(id) ==
    /\ motionType' = id
    /\ UNCHANGED <<prompt, activePreset, motionBlur, stabilization, speed,
                   selectedBgMusicId, selectedSfxId, isAdvancedMode,
                   camAngle, atmosphere, isSuggesting, directorVision>>
    /\ UNCHANGED <<editorVars, jobVars, appVars>>
    /\ Rendered

\* prev.includes(id)
hasId(list, id) == \E i \in 1..Len(list) : list[i] = id

\* onClick of an atmosphere button
toggleAtmosphere(id) ==
    /\ atmosphere' = IF hasId(atmosphere, id)
                     THEN SelectSeq(atmosphere, LAMBDA a : a # id)
                     ELSE Append(atmosphere, id)
    /\ UNCHANGED <<prompt, activePreset, motionBlur, stabilization, speed,
                   selectedBgMusicId, selectedSfxId, isAdvancedMode,
                   camAngle, motionType, isSuggesting, directorVision>>
    /\ UNCHANGED <<editorVars, jobVars, appVars>>
    /\ Rendered

\* onClick of the stabilization switch
ToggleStabilization ==
    /\ stabilization' = ~stabilization
    /\ UNCHANGED <<prompt, activePreset, motionBlur, speed,
                   selectedBgMusicId, selectedSfxId, isAdvancedMode,
                   camAngle, motionType, atmosphere, isSuggesting,
                   directorVision>>
    /\ UNCHANGED <<editorVars, jobVars, appVars>>
    /\ Rendered

\* onClick of the motion blur switch
ToggleMotionBlur ==
    /\ motionBlur' = ~motionBlur
    /\ UNCHANGED <<prompt, activePreset, stabilization, speed,
                   selectedBgMusicId, selectedSfxId, isAdvancedMode,
                   camAngle, motionType, atmosphere, isSuggesting,
                   directorVision>>
    /\ UNCHANGED <<editorVars, jobVars, appVars>>
    /\ Rendered

\* onClick of an entry of the ambient music grid
setSelectedBgMusicId(id) ==
    /\ selectedBgMusicId' = id
    /\ UNCHANGED <<prompt, activePreset, motionBlur, stabilization, speed,
                   selectedSfxId, isAdvancedMode, camAngle, motionType,
                   atmosphere, isSuggesting, directorVision>>
    /\ UNCHANGED <<editorVars, jobVars, appVars>>
    /\ Rendered

\* onClick of an entry of the sound effects grid
setSelectedSfxId(id) ==
    /\ selectedSfxId' = id
    /\ UNCHANGED <<prompt, activePreset, motionBlur, stabilization, speed,
                   selectedBgMusicId, isAdvancedMode, camAngle, motionType,
                   atmosphere, isSuggesting, directorVision>>
    /\ UNCHANGED <<editorVars, jobVars, appVars>>
    /\ Rendered

\* onClick of the AI Analysis Suggestion button: suggestParameters up to
\* its await
suggestParameters ==
    /\ ~(~startImage \/ isSuggesting)
    /\ isSuggesting' = TRUE
    /\ directorVision' = Null
    /\ UNCHANGED <<prompt, activePreset, motionBlur, stabilization, speed,
                   selectedBgMusicId, selectedSfxId, isAdvancedMode,
                   camAngle, motionType, atmosphere>>
    /\ UNCHANGED <<editorVars, jobVars, appVars>>
    /\ Rendered

\* generateContent resolves and its text parses to res: the suggestion is
\* applied
SuggestResolve(res) ==
    /\ isSuggesting
    /\ isAdvancedMode' = TRUE
    /\ camAngle' = IfSet(res.cameraAngle, camAngle)
    /\ motionType' = IfSet(res.motionType, motionType)
    /\ atmosphere' = IfSet(res.atmosphere, atmosphere)
    /\ prompt' = IfSet(res.prompt, prompt)
    /\ directorVision' = IF res.directorVision # Null
                         THEN res.directorVision ELSE directorVision
    /\ selectedBgMusicId' = IfSet(res.suggestedAudio, selectedBgMusicId)
    /\ selectedSfxId' = IfSet(res.suggestedSfx, selectedSfxId)
    /\ speed' = IfSet(res.speed, speed)
    /\ activePreset' = "custom"
    /\ isSuggesting' = FALSE
    /\ UNCHANGED <<motionBlur, stabilization>>
    /\ UNCHANGED <<editorVars, jobVars, appVars>>
    /\ Rendered

\* generateContent rejects, or its text does not parse: the catch block logs
\* the error and the finally block ends the suggestion
SuggestReject ==
    /\ isSuggesting
    /\ isSuggesting' = FALSE
    /\ UNCHANGED <<prompt, activePreset, motionBlur, stabilization, speed,
                   selectedBgMusicId, selectedSfxId, isAdvancedMode,
                   camAngle, motionType, atmosphere, directorVision>>
    /\ UNCHANGED <<editorVars, jobVars, appVars>>
    /\ Rendered

\* the handlers of the prompt's inputs
ComposerEvent ==
    \/ \E text \in TypedPrompts : setPromptText(text)
    \/ \E id \in PresetSamples : applyPreset(id)
    \/ ToggleAdvancedMode
    \/ \E id \in CamAngleSamples : setCamAngle(id)
    \/ \E id \in MotionSamples : setMotionType(id)
    \/ \E id \in AtmosphereSamples : toggleAtmosphere(id)
    \/ ToggleStabilization
    \/ ToggleMotionBlur
    \/ suggestParameters
    \/ \E res \in Suggestions : SuggestResolve(res)
    \/ SuggestReject

----------------------------------------------------------------------------
(* Claims about the prompt composer *)

\* C17: in every state the composed prompt is enginePrompt of the current
\* prompt text, advanced mode, camera angle, motion type, atmosphere list,
\* speed, motion blur and stabilization, whatever handlers ran before; and
\* with advanced mode off, the speed strictly between 0.6 and 1.4 and both
\* flags off it is the trimmed prompt text.
C17_PromptOfInputsOnly ==
    /\ enginePromptMemo =
           enginePrompt(prompt, isAdvancedMode, camAngle, motionType,
                        atmosphere, speed, motionBlur, stabilization)
    /\ (~isAdvancedMode /\ speed > 60 /\ speed < 140
            /\ ~motionBlur /\ ~stabilization) =>
           enginePromptMemo = trim(prompt)

\* a padded text, the speed just below the fast threshold after a
\* suggestion, advanced mode and both flags off: the prompt is the bare text
C17_Witness ==
    /\ prompt = <<" ", "A cat on a roof", " ", " ">>
    /\ speed = 139
    /\ ~isAdvancedMode
    /\ ~motionBlur
    /\ ~stabilization
    /\ enginePromptMemo = <<"A cat on a roof">>

\* text contains the piece token
Has(text, token) == \E i \in 1..Len(text) : text[i] = token

\* where the piece token stands in text
Pos(text, token) == CHOOSE i \in 1..Len(text) : text[i] = token

\* the pieces that open the clauses of the composed prompt, in the order the
\* clauses are to appear
ClauseOrder ==
    <<". Scene ", ". The animation uses a ", " with ",
      "The animation should be very slow, deliberate, and serene.",
      "The animation should be fast-paced, high-energy, and dynamic.",
      "Apply realistic cinematic motion blur.",
      "Ensure perfectly stabilized, jitter-free camera movement.">>

\* C23: the composed prompt starts with the base text; it has the camera
\* clause and the motion clause exactly when advanced mode is on, the
\* atmosphere names in the motion clause exactly when advanced mode is on and
\* a tag is selected, the slow clause exactly when speed <= 0.6, the fast
\* clause exactly when speed >= 1.4, the motion-blur and the stabilization
\* clause exactly when set; and the clauses present stand in that order.
C23_ClausesInFixedOrder ==
    LET text == enginePromptMemo
        present == [i \in 1..Len(ClauseOrder) |-> Has(text, ClauseOrder[i])]
    IN  /\ SubSeq(text, 1, Len(trim(prompt))) = trim(prompt)
        /\ present[1] <=> isAdvancedMode
        /\ present[2] <=> isAdvancedMode
        /\ present[3] <=> (isAdvancedMode /\ Len(atmosphere) > 0)
        /\ Has(text, " atmospheric effects") <=> present[3]
        /\ present[4] <=> speed <= 60
        /\ present[5] <=> speed >= 140
        /\ present[6] <=> motionBlur
        /\ present[7] <=> stabilization
        /\ \A i, j \in 1..Len(ClauseOrder) :
               (i < j /\ present[i] /\ present[j]) =>
                   /\ Pos(text, ClauseOrder[i]) < Pos(text, ClauseOrder[j])
                   /\ Pos(text, ClauseOrder[i]) > Len(trim(prompt))
        /\ present[3] =>
               /\ Pos(text, " atmospheric effects") > Pos(text, " with ")
               /\ \A k \in 4..Len(ClauseOrder) :
                      present[k] =>
                          Pos(text, " atmospheric effects")
                              < Pos(text, ClauseOrder[k])

\* advanced mode with two atmosphere tags, the slow speed and both flags:
\* every clause but the fast one is in the prompt
C23_Witness ==
    /\ isAdvancedMode
    /\ Len(atmosphere) = 2
    /\ speed = 60
    /\ motionBlur
    /\ stabilization
    /\ Has(enginePromptMemo, " with ")
    /\ Has(enginePromptMemo, "Apply realistic cinematic motion blur.")
    /\ enginePromptMemo[Len(enginePromptMemo)] =
           "Ensure perfectly stabilized, jitter-free camera movement."

\* C28: in every state, also after a suggestion has been applied, the camera
\* angle, the motion type, every atmosphere tag and both audio selections are
\* ids of entries of their libraries, and the composed prompt names no
\* undefined entry.
C28_SelectionsAreLibraryIds ==
    /\ camAngle \in DOMAIN ADVANCED_CAM_ANGLES
    /\ motionType \in DOMAIN ADVANCED_MOTION
    /\ \A i \in 1..Len(atmosphere) :
           atmosphere[i] \in DOMAIN ADVANCED_ATMOSPHERE
    /\ selectedBgMusicId \in DOMAIN BG_MUSIC_LIBRARY
    /\ selectedSfxId \in DOMAIN SFX_LIBRARY
    /\ ~Has(enginePromptMemo, "undefined")

----------------------------------------------------------------------------
(* The App and the ApiKeyModal: checkApiKey and handleOpenSelect *)

\* window.aistudio.hasSelectedApiKey() resolves: checkApiKey goes on
CheckResolve(hasKey) ==
    /\ keyCheck = "awaitHasKey"
    /\ apiKeySelected' = <<hasKey>>
    /\ keyCheck' = "done"
    /\ keyEvent' = "checked"
    /\ UNCHANGED <<aistudio, openSelects, unhandled>>
    /\ UNCHANGED <<startImage, genState, runs, alerts>>
    /\ UNCHANGED <<editorVars, composerVars, audioVars>>

\* window.aistudio.hasSelectedApiKey() rejects: checkApiKey has no try
\* block and the effect drops its promise
CheckReject ==
    /\ keyCheck = "awaitHasKey"
    /\ keyCheck' = "rejected"
    /\ keyEvent' = "checkRejected"
    /\ unhandled' = unhandled \cup {"hasSelectedApiKey"}
    /\ UNCHANGED <<aistudio, openSelects>>
    /\ UNCHANGED jobVars
    /\ UNCHANGED <<editorVars, composerVars, audioVars>>

\* the modal is rendered
ModalShown == apiKeySelected = <<FALSE>>

\* onClick of Select API Key: handleOpenSelect up to its await
handleOpenSelect ==
    /\ ModalShown
    /\ openSelects < MaxOpenSelects
    /\ openSelects' = IF aistudio THEN openSelects + 1 ELSE openSelects
    /\ keyEvent' = "select"
    /\ UNCHANGED <<aistudio, keyCheck, unhandled>>
    /\ UNCHANGED jobVars
    /\ UNCHANGED <<editorVars, composerVars, audioVars>>

\* window.aistudio.openSelectKey() resolves: onKeySelected is called
OpenSelectResolve ==
    /\ openSelects > 0
    /\ openSelects' = openSelects - 1
    /\ apiKeySelected' = <<TRUE>>
    /\ keyEvent' = "selected"
    /\ UNCHANGED <<aistudio, keyCheck, unhandled>>
    /\ UNCHANGED <<startImage, genState, runs, alerts>>
    /\ UNCHANGED <<editorVars, composerVars, audioVars>>

\* window.aistudio.openSelectKey() rejects: handleOpenSelect has no try
\* block and the click handler drops its promise
OpenSelectReject ==
    /\ openSelects > 0
    /\ openSelects' = openSelects - 1
    /\ keyEvent' = "selectRejected"
    /\ unhandled' = unhandled \cup {"openSelectKey"}
    /\ UNCHANGED <<aistudio, keyCheck>>
    /\ UNCHANGED jobVars
    /\ UNCHANGED <<editorVars, composerVars, audioVars>>

\* the dashboard is rendered
DashboardShown == apiKeySelected # Null

----------------------------------------------------------------------------
(* Claims about the App *)

\* C20: no asynchronous failure escapes as an unhandled rejection: whichever
\* of the credential check, the key selection, the suggestion call, the
\* submission, a poll, the asset fetch or a play call fails, no rejection is
\* left without a handler
C20_NoUnhandledRejection == unhandled = {}

\* C30: whenever Select API Key has been pressed in the modal, with or
\* without the host's credential capability, apiKeySelected becomes true in
\* the end and the modal is hidden.
C30_SelectHidesModal ==
    (keyEvent = "select") ~> (apiKeySelected = <<TRUE>>)

----------------------------------------------------------------------------
(* Claims about the audio channels *)

\* both channels are selected from library entries with a source
BothSelected ==
    \A ch \in Channels : HasSource(ch, selectedBgMusicId, selectedSfxId)

\* C19: for a generated video with both channels selected from non-empty
\* library entries, a play event of the video starts each channel whose play
\* call does not fail and leaves a channel whose play call fails as it was,
\* a pause event pauses both channels, and the video reaching its end puts
\* both channels back to their start and pauses them
C19_AudioFollowsVideo ==
    [][BothSelected =>
          /\ \A outcome \in PlayOutcomes :
                 VideoPlays(outcome) =>
                     \A ch \in Channels :
                         IF outcome[ch] = "starts"
                         THEN audio'[ch].playing
                         ELSE audio'[ch] = audio[ch]
          /\ VideoPauses => \A ch \in Channels : ~audio'[ch].playing
          /\ VideoReachesEnd =>
                 \A ch \in Channels :
                     audio'[ch] = SilentAudio]_vars

\* while both channels are selected from entries with a source, a play
\* event calls play on both channels and starts each channel whose call does
\* not fail, and a pause event pauses both
PlayAndPauseReachBothChannels ==
    [][BothSelected =>
          /\ \A outcome \in PlayOutcomes :
                 VideoPlays(outcome) =>
                     /\ \A ch \in Channels : mediaCalls'[ch] > 0
                     /\ \A ch \in Channels :
                            IF outcome[ch] = "starts"
                            THEN audio'[ch].playing
                            ELSE audio'[ch] = audio[ch]
          /\ VideoPauses => \A ch \in Channels : ~audio'[ch].playing]_vars

C29_OneCallPerEvent == \A ch \in Channels : mediaCalls[ch] <= 1

----------------------------------------------------------------------------
(* Specifications *)

\* the state after the editor was opened on slot, with an image of w by h
\* pixels loaded and painted, in a dashboard that has started no job; the
\* start slot holds an image when it is the slot being edited
\* the dashboard and its editor as they are mounted, slot being edited
DashboardMounted(w, h, ar, slot) ==
    /\ params = DefaultParams
    /\ history = <<>>
    /\ future = <<>>
    /\ isDragging = FALSE
    /\ dragStartParams = Null
    /\ lastEvent = "mount"
    /\ edits = 0
    /\ steps = 0
    /\ canvas = applyChanges(BlankCanvas(w, h), DefaultParams)
    /\ aspectRatio = ar
    /\ exported = Null
    /\ editingIndex = <<slot>>
    /\ shakeFrameRef = 0
    /\ frames = {}
    /\ startImage = (slot = 0)
    /\ genState = InitialGenState
    /\ runs = [r \in RunIds |-> IdleRun]
    /\ alerts = 0
    /\ prompt = PRESETS["tech"]
    /\ activePreset = "tech"
    /\ motionBlur = FALSE
    /\ stabilization = TRUE
    /\ speed = 100
    /\ selectedBgMusicId = "none"
    /\ selectedSfxId = "none"
    /\ isAdvancedMode = FALSE
    /\ camAngle = "wide"
    /\ motionType = "pan"
    /\ atmosphere = <<>>
    /\ isSuggesting = FALSE
    /\ directorVision = Null
    /\ enginePromptMemo =
           enginePrompt(PRESETS["tech"], FALSE, "wide", "pan", <<>>, 100,
                        FALSE, TRUE)
    /\ videoRef = Null
    /\ audio = [ch \in Channels |-> SilentAudio]
    /\ mediaCalls = NoCalls

\* the App after checkApiKey has found a selected key
Mounted(w, h, ar, slot) ==
    /\ DashboardMounted(w, h, ar, slot)
    /\ apiKeySelected = <<TRUE>>
    /\ aistudio = TRUE
    /\ keyCheck = "done"
    /\ openSelects = 0
    /\ keyEvent = "checked"
    /\ unhandled = {}

Init == Mounted(4, 3, "16:9", 1)

\* the sliders moved in the history's specification
HistorySliders == {"rotateX", "hue"}

HistoryEvent ==
    \/ \E f \in HistorySliders : \E v \in SliderSamples(f) : SliderChange(f, v)
    \/ handleSliderStart
    \/ SliderEnd
    \/ handleRotateZ
    \/ resetTransforms
    \/ \E f \in {"grayscale", "sepia"} : Toggle(f)
    \/ ClickUndo
    \/ ClickRedo
    \/ \E e \in KeyEvents : KeyDown(e)

Next == steps < MaxSteps /\ HistoryEvent

\* the editor, every handler
Spec == Init /\ [][Next]_vars

\* the editor used for committed edits only: clicks on the committing
\* buttons, and drags that are started, moved and ended in turn
EditsEvent ==
    \/ ~isDragging /\ handleSliderStart
    \/ ~isDragging /\ handleRotateZ
    \/ ~isDragging /\ resetTransforms
    \/ ~isDragging /\ \E f \in {"grayscale", "sepia"} : Toggle(f)
    \/ isDragging /\ \E f \in HistorySliders :
                         \E v \in SliderSamples(f) : SliderChange(f, v)
    \/ isDragging /\ SliderEnd

NextEdits == steps < MaxSteps /\ EditsEvent

SpecEdits == Init /\ [][NextEdits]_vars

\* the editor with sliders moved in drags only, and with commit clicks,
\* undos and redos at any time, also while a drag is open
DragEvent ==
    \/ ~isDragging /\ handleSliderStart
    \/ isDragging /\ \E f \in HistorySliders :
                         \E v \in SliderSamples(f) : SliderChange(f, v)
    \/ isDragging /\ SliderEnd
    \/ handleRotateZ
    \/ resetTransforms
    \/ \E f \in {"grayscale", "sepia"} : Toggle(f)
    \/ ClickUndo
    \/ ClickRedo
    \/ \E e \in KeyEvents : KeyDown(e)

NextDrag == steps < MaxSteps /\ DragEvent

SpecDrag == Init /\ [][NextDrag]_vars

\* the editor with every slider moved
RangeEvent ==
    \/ \E f \in Sliders : \E v \in SliderSamples(f) : SliderChange(f, v)
    \/ handleSliderStart
    \/ SliderEnd
    \/ handleRotateZ
    \/ resetTransforms
    \/ \E f \in {"grayscale", "sepia"} : Toggle(f)
    \/ ClickUndo
    \/ ClickRedo
    \/ \E e \in KeyEvents : KeyDown(e)

NextRange == steps < MaxRangeSteps /\ RangeEvent

SpecRange == Init /\ [][NextRange]_vars

\* the dashboard as the user drives it
NextJob ==
    \/ SetStartImage
    \/ RemoveStartImage
    \/ RenderSceneClick
    \/ RunStep

SpecJob == Init /\ [][NextJob]_vars

\* the dashboard with a backend that answers every request and a timer that
\* fires: a step of a call in flight is taken in the end
SpecJobFair == SpecJob /\ WF_vars(RunStep)

\* the dashboard, with generateVideo also called without a starting image
NextCall ==
    \/ NextJob
    \/ CallWithoutImage

SpecCall == Init /\ [][NextCall]_vars

\* the operation the backend answers with at once: done, with a video
FinishedOperation == [done |-> TRUE, uri |-> TRUE]

\* the ambient and effect entries clicked in the model
BgMusicSamples == {"none", "tech", "space"}
SfxSamples == {"none", "glitch"}

\* the sync listeners on the video, over both channels
Registrations ==
    IF videoRef = Null THEN 0
    ELSE videoRef[1].listeners["bgMusicRef"] + videoRef[1].listeners["sfxRef"]

AudioEvent ==
    \/ SetStartImage
    \/ RenderSceneClick
    \/ \E r \in RunIds : SubmitResolve(r, FinishedOperation)
    \/ \E r \in RunIds : FetchResolve(r)
    \/ \E r \in RunIds : BlobResolve(r)
    \/ \E id \in BgMusicSamples : setSelectedBgMusicId(id)
    \/ \E id \in SfxSamples : setSelectedSfxId(id)
    \/ \E outcome \in PlayOutcomes : VideoPlays(outcome)
    \/ VideoPauses
    \/ TimePasses
    \/ VideoReachesEnd

NextAudio == Registrations < MaxListeners /\ AudioEvent

\* the App as it is mounted: checkApiKey has run up to its await, or to its
\* end where the host has no credential capability
InitKey ==
    /\ DashboardMounted(4, 3, "16:9", 1)
    /\ aistudio \in BOOLEAN
    /\ apiKeySelected = IF aistudio THEN Null ELSE <<TRUE>>
    /\ keyCheck = IF aistudio THEN "awaitHasKey" ELSE "done"
    /\ openSelects = 0
    /\ keyEvent = "mount"
    /\ unhandled = {}

\* the events of the dashboard that can fail, and what leads to them
FailingEvent ==
    \/ SetStartImage
    \/ RenderSceneClick
    \/ \E r \in RunIds : \E op \in Operations : SubmitResolve(r, op)
    \/ \E r \in RunIds : PollTick(r)
    \/ \E r \in RunIds : PollResolve(r, FinishedOperation)
    \/ \E r \in RunIds : FetchResolve(r)
    \/ \E r \in RunIds : BlobResolve(r)
    \/ \E r \in RunIds : \E message \in ErrorMessages : Reject(r, message)
    \/ suggestParameters
    \/ SuggestReject
    \/ setSelectedBgMusicId("tech")
    \/ \E outcome \in PlayOutcomes : VideoPlays(outcome)
    \/ VideoPauses

NextKey ==
    \/ \E hasKey \in BOOLEAN : CheckResolve(hasKey)
    \/ CheckReject
    \/ handleOpenSelect
    \/ OpenSelectResolve
    \/ OpenSelectReject
    \/ DashboardShown /\ FailingEvent

\* the App: the credential check, the modal, and the dashboard's calls with
\* their failures
SpecKey == InitKey /\ [][NextKey]_vars

\* the App with a host whose calls never fail, and the jobs that can end in
\* a credential failure
SelectEvent ==
    \/ \E hasKey \in BOOLEAN : CheckResolve(hasKey)
    \/ handleOpenSelect
    \/ OpenSelectResolve
    \/ DashboardShown /\ SetStartImage
    \/ DashboardShown /\ RenderSceneClick
    \/ DashboardShown /\ RunStep

\* the host answers every openSelectKey call
SpecSelect ==
    InitKey /\ [][SelectEvent]_vars /\ WF_vars(OpenSelectResolve)

\* the dashboard with videos generated at the first answer, the audio
\* selection and the playback of the result
SpecAudio == Init /\ [][NextAudio]_vars

\* the editor opened on an image of any size up to MaxSide, for either
\* aspect ratio and either slot, then rotated and saved
InitSave ==
    \E w \in 1..MaxSide, h \in 1..MaxSide, ar \in {"16:9", "9:16"},
       slot \in {0, 1} : Mounted(w, h, ar, slot)

NextSave ==
    \/ handleRotateZ
    \/ handleSave

SpecSave == InitSave /\ [][NextSave]_vars

\* the sliders moved before an export: the preview-only ones, a colour
\* filter and the vignette
ExportSliders ==
    {"rotateX", "rotateY", "perspective", "cameraShake", "brightness",
     "vignette"}

ExportEvent ==
    \/ \E f \in ExportSliders : \E v \in SliderSamples(f) : SliderChange(f, v)
    \/ \E f \in {"grayscale", "sepia"} : Toggle(f)
    \/ handleRotateZ
    \/ resetTransforms
    \/ handleSave

NextExport == steps < MaxExportSteps /\ ExportEvent

\* the editor adjusted and then saved
SpecExport == Init /\ [][NextExport]_vars

\* the intensities the shake slider is moved to
ShakeSamples == {0, 50, 100}

ShakeEvent ==
    \/ \E v \in ShakeSamples : SliderChange("cameraShake", v)
    \/ handleSliderStart
    \/ SliderEnd
    \/ ClickUndo
    \/ ClickRedo
    \/ \E f \in frames : animateShake(f)
    \/ onCancel
    \/ handleSave

NextShake == steps < MaxShakeSteps /\ ShakeEvent

\* the editor with its shake slider moved, undone and redone, the browser
\* running the frame callbacks
SpecShake == Init /\ [][NextShake]_vars

\* the dashboard's prompt inputs, with a start image set or removed
NextPrompt ==
    \/ ComposerEvent
    \/ SetStartImage
    \/ RemoveStartImage

SpecPrompt == Init /\ [][NextPrompt]_vars



============================================================================
